---------------------------- MODULE Spec2Model ----------------------------
(***************************************************************************)
(* A model of ygot's path algebra, tree flattening and Diff (ygot/diff.go) *)
(* and of the gNMI mutation entry points UnmarshalNotifications and        *)
(* UnmarshalSetRequest (ytypes), instantiated on the compressed GoStructs  *)
(* of the ordered-list of ctestschema.yang:                                *)
(*                                                                         *)
(*   type Device struct {                                                  *)
(*     OrderedList *OrderedList_OrderedMap                                 *)
(*                      `path:"ordered-lists/ordered-list"`                *)
(*   }                                                                     *)
(*   type OrderedList struct {                                             *)
(*     Key     *string `path:"config/key|key" shadow-path:"state/key|key"` *)
(*     RoValue *string `path:"state/ro-value"`                             *)
(*     Value   *string `path:"config/value" shadow-path:"state/value"`     *)
(*   }                                                                     *)
(*                                                                         *)
(* All leaves are YANG strings.  An unset leaf (nil pointer) is Nil.       *)
(***************************************************************************)
EXTENDS Integers, Sequences, FiniteSets, TLC

VARIABLES
    root,       \* schema.Root, the GoStruct the mutation entry points overwrite
    original,   \* the "from" GoStruct handed to Diff
    modified,   \* the "to" GoStruct handed to Diff
    opts,       \* the DiffOpt values of the last Diff call
    uopts,      \* the UnmarshalOpt values of the last mutation call
    notif,      \* the result of the last Diff call
    call,       \* the last mutation call: its kind and its request
    pre,        \* schema.Root as it was when the last mutation call started
    first,      \* schema.Root after the first of two identical applications
    err,        \* whether the last mutation call returned an error
    log,        \* the DeleteNode / SetNode calls the last mutation call made
    fn,         \* the last call of a function of the path algebra or the
                \* schema tree: its name and arguments
    out,        \* what that call returned
    om,         \* the ordered map handed to ytypes.Validate
    phase       \* position of the scenario

vars == <<root, original, modified, opts, uopts, notif, call, pre, first, err, log, fn, out,
          om, phase>>

----------------------------------------------------------------------------
(* Bounds and value domains *)

\* most entries of the ordered list in a tree handed to Diff
MaxEntries == 2
\* most leaves set in a tree handed to Diff
MaxLeaves == 3
\* most operations (deletes + replaces + updates) in one SetRequest
MaxOps == 3
\* most notifications in one UnmarshalNotifications call
MaxNotifs == 2
\* most schema paths of one struct tag handed to a path algebra call
MaxPaths == 3
\* most gNMI paths of one pathSpec handed to a path algebra call
MaxParentPaths == 2
\* most entries of an ordered map handed to ytypes.Validate
MaxListLen == 6

\* parts of a leafref path; entries handed to buildSchemaTree
MaxTokens == 4
MaxSchemaEntries == 3

\* list keys and leaf values (YANG strings)
Keys == {"foo", "bar"}
Values == {"foo-val", "bar-val"}
\* a nil pointer
Nil == "<nil>"

----------------------------------------------------------------------------
(* Sequence helpers *)

Range(s) == {s[i] : i \in 1..Len(s)}

RECURSIVE Flatten(_)
\* concatenation of a sequence of sequences
Flatten(ss) == IF Len(ss) = 0 THEN <<>> ELSE Head(ss) \o Flatten(Tail(ss))

\* the sequences over S of length at most n
SeqsUpTo(S, n) == UNION {[1..m -> S] : m \in 0..n}

Reverse(s) == [i \in 1..Len(s) |-> s[Len(s) + 1 - i]]

\* a local variable: the rest of a function body F, run with the value x
Bind(x, F(_)) == F(x)

----------------------------------------------------------------------------
(* The generated GoStructs: struct tags of every field *)

\* struct Device (fakeroot), compressed: the surrounding container
\* ordered-lists is compressed out of the list field's path
DeviceFields ==
    << [name |-> "OrderedList", kind |-> "list",
        path |-> << <<"ordered-lists", "ordered-list">> >>,
        shadow |-> << >>] >>

\* struct OrderedList, compressed: config/ and state/ are compressed out,
\* the list key is addressable both directly and under config/
OrderedListFields ==
    << [name |-> "Key", kind |-> "leaf",
        path |-> << <<"config", "key">>, <<"key">> >>,
        shadow |-> << <<"state", "key">>, <<"key">> >>],
       [name |-> "RoValue", kind |-> "leaf",
        path |-> << <<"state", "ro-value">> >>,
        shadow |-> << >>],
       [name |-> "Value", kind |-> "leaf",
        path |-> << <<"config", "value">> >>,
        shadow |-> << <<"state", "value">> >>] >>

\* util.SchemaPaths: the paths of the "path" struct tag
SchemaPaths(f) == f.path

\* util.ShadowSchemaPaths: the paths of the "shadow-path" struct tag
ShadowSchemaPaths(f) == f.shadow

\* one entry of the list: its lookup key k in the ordered map and its fields
EntryOf(k, key, ro, val) == [k |-> k, Key |-> key, RoValue |-> ro, Value |-> val]

\* NewOrderedList(k): a list entry with only its key populated
NewEntry(k) == EntryOf(k, k, Nil, Nil)

\* the empty Device
EmptyDevice == [OrderedList |-> << >>]

\* ΛListKeyMap of OrderedList: the key mapping of an entry, an error when
\* the key leaf is nil
ListKeyMap(e) ==
    IF e.Key = Nil THEN [err |-> TRUE, keys |-> {}]
    ELSE [err |-> FALSE, keys |-> {<<"key", e.Key>>}]

\* keyMapAsStrings: every key value in its string form (keys are strings)
keyMapAsStrings(keys) == [err |-> FALSE, keys |-> keys]

----------------------------------------------------------------------------
(* gNMI paths *)

\* a gnmipb.PathElem: a name and a key map (a set of <<name, value>> pairs)
Elem(name, key) == [name |-> name, key |-> key]

RECURSIVE KeyString(_)
\* the [name=value] predicates of a path element
KeyString(key) ==
    IF key = {} THEN ""
    ELSE LET kv == CHOOSE x \in key : TRUE
         IN "[" \o kv[1] \o "=" \o kv[2] \o "]" \o KeyString(key \ {kv})

RECURSIVE PathToString(_)
\* ygot.PathToString: /name[key=value]/name...
PathToString(p) ==
    IF Len(p) = 0 THEN ""
    ELSE "/" \o Head(p).name \o KeyString(Head(p).key) \o PathToString(Tail(p))

\* schemaPathTogNMIPath: a schema path has names only, no keys
schemaPathTogNMIPath(path) == [i \in 1..Len(path) |-> Elem(path[i], {})]

\* joingNMIPaths: the child's elements appended to a clone of the parent
joingNMIPaths(parent, child) == parent \o child

\* util.JoinPaths: the path's elements appended to the prefix's
JoinPaths(prefix, path) == prefix \o path


----------------------------------------------------------------------------
(* Path algebra (ygot/diff.go) *)

\* a *pathSpec: the set of gNMI paths a value corresponds to
PathSpec(paths) == [nil |-> FALSE, nilPaths |-> FALSE, gNMIPaths |-> paths]

\* a nil *pathSpec
NilPathSpec == [nil |-> TRUE, nilPaths |-> TRUE, gNMIPaths |-> << >>]

\* &pathSpec{}: a pathSpec whose gNMIPaths slice is nil
EmptyPathSpec == [nil |-> FALSE, nilPaths |-> TRUE, gNMIPaths |-> << >>]

\* NodeInfo.Annotation: nil, a slice holding one *pathSpec, or a non-nil
\* slice holding no *pathSpec
NoAnnotation == [set |-> FALSE, found |-> FALSE, spec |-> NilPathSpec]
Annotated(vp) == [set |-> TRUE, found |-> TRUE, spec |-> vp]
OtherAnnotation == [set |-> TRUE, found |-> FALSE, spec |-> NilPathSpec]

\* NodeInfo.Parent: nil, or the NodeInfo of the parent with its annotation
NilParent == [nil |-> TRUE, Annotation |-> NoAnnotation]
ParentNode(annotation) == [nil |-> FALSE, Annotation |-> annotation]

\* the (value, error) pair of a path computation
PathOk(vp) == [err |-> FALSE, panic |-> FALSE, spec |-> vp]
PathErr == [err |-> TRUE, panic |-> FALSE, spec |-> NilPathSpec]
\* the computation panicked: nothing is returned
PathPanic == [err |-> FALSE, panic |-> TRUE, spec |-> NilPathSpec]

\* pathSpec.Equal: every path of p is matched by some path of o
Equal(p, o) ==
    IF p.nil \/ o.nil THEN p.nil = o.nil
    ELSE \A i \in 1..Len(p.gNMIPaths) :
            \E j \in 1..Len(o.gNMIPaths) : p.gNMIPaths[i] = o.gNMIPaths[j]

\* nodeRootPath: one path per schema path of the field
nodeRootPath(schemaPaths) ==
    PathSpec([i \in 1..Len(schemaPaths) |-> schemaPathTogNMIPath(schemaPaths[i])])

\* joingNMIPaths without the proto.Clone: the child's elements are appended
\* to the parent message itself
joingNMIPathsEffectNoClone(parent, child) == [p |-> parent \o child, parent |-> parent \o child]

\* joingNMIPaths as it acts on the heap: the path returned, and the parent
\* message after the call (a clone was appended to, the parent is as before)
joingNMIPathsEffect(parent, child) == [p |-> joingNMIPaths(parent, child), parent |-> parent]

RECURSIVE nodeChildPathFrom(_, _, _, _, _)
\* the loops of nodeChildPath from the i-th parent path and the j-th schema
\* path on: parents are the parent's paths as they are by now, gPaths the
\* paths collected
nodeChildPathFrom(parents, schemaPaths, i, j, gPaths) ==
    IF i > Len(parents) THEN [gPaths |-> gPaths, parents |-> parents]
    ELSE IF j > Len(schemaPaths)
    THEN nodeChildPathFrom(parents, schemaPaths, i + 1, 1, gPaths)
    ELSE Bind(joingNMIPathsEffect(parents[i], schemaPathTogNMIPath(schemaPaths[j])), LAMBDA r :
            nodeChildPathFrom([x \in 1..Len(parents) |->
                                  IF x = i THEN r.parent ELSE parents[x]],
                              schemaPaths, i, j + 1,
                              Append(gPaths, r.p)))

\* nodeChildPath: every schema path of the child appended to every path of
\* the parent, parent-major
nodeChildPath(parentPath, schemaPaths) ==
    IF parentPath.nil \/ parentPath.nilPaths THEN PathErr
    ELSE PathOk(PathSpec(
            nodeChildPathFrom(parentPath.gNMIPaths, schemaPaths, 1, 1, << >>).gPaths))

\* the parent's pathSpec as nodeChildPath leaves it
nodeChildPathParentAfter(parentPath, schemaPaths) ==
    IF parentPath.nil \/ parentPath.nilPaths THEN parentPath
    ELSE [parentPath EXCEPT !.gNMIPaths =
             nodeChildPathFrom(parentPath.gNMIPaths, schemaPaths, 1, 1, << >>).parents]

\* nodeMapPath appending an element of the same name that carries the keys
nodeMapPathAppendElem(list, parentPath) ==
    LET keys == ListKeyMap(list)
    IN  IF keys.err \/ parentPath.nil \/ parentPath.nilPaths THEN PathErr
        ELSE PathOk(PathSpec(
                [i \in 1..Len(parentPath.gNMIPaths) |->
                    LET p == parentPath.gNMIPaths[i]
                    IN  Append(p, Elem(p[Len(p)].name, keys.keys))]))

\* nodeMapPath: the entry's keys set on the last element of every path of
\* the list field; the last element is indexed without a test of the length,
\* so a path of the list field with no element is a panic
nodeMapPath(list, parentPath) ==
    LET keys == ListKeyMap(list)
        strkeys == keyMapAsStrings(keys.keys)
    IN  IF keys.err THEN PathErr
        ELSE IF strkeys.err THEN PathErr
        ELSE IF parentPath.nil \/ parentPath.nilPaths THEN PathErr
        ELSE IF \E i \in 1..Len(parentPath.gNMIPaths) : Len(parentPath.gNMIPaths[i]) = 0
        THEN PathPanic
        ELSE PathOk(PathSpec(
                [i \in 1..Len(parentPath.gNMIPaths) |->
                    LET p == parentPath.gNMIPaths[i]
                    IN  [x \in 1..Len(p) |->
                            IF x = Len(p) THEN Elem(p[x].name, strkeys.keys)
                            ELSE p[x]]]))

\* getPathSpec: the *pathSpec among the annotations of a NodeInfo
getPathSpec(annotation) ==
    IF annotation.found THEN PathOk(annotation.spec) ELSE PathErr

\* nodeValuePath: the paths of a node, from its parent's annotation; a node
\* without a parent, or whose parent carries a nil annotation, is addressed
\* as a root node
nodeValuePath(parent, isKeyHelper, fieldValue, schemaPaths) ==
    IF parent.nil \/ ~parent.Annotation.set THEN PathOk(nodeRootPath(schemaPaths))
    ELSE LET cp == getPathSpec(parent.Annotation)
         IN  IF cp.err THEN PathErr
             ELSE IF isKeyHelper THEN nodeMapPath(fieldValue, cp.spec)
             ELSE nodeChildPath(cp.spec, schemaPaths)

\* leastSpecificPath taking the last of the shortest paths (<= for <)
leastSpecificPathLastShortest(paths) ==
    IF Len(paths) = 0 THEN << >>
    ELSE paths[CHOOSE j \in 1..Len(paths) :
                  /\ \A i \in 1..Len(paths) : Len(paths[j]) <= Len(paths[i])
                  /\ \A i \in (j + 1)..Len(paths) : Len(paths[j]) < Len(paths[i])]

RECURSIVE leastSpecificFrom(_, _, _)
\* the loop of leastSpecificPath from index i on; shortPath is << >> (nil)
\* until a first path is seen
leastSpecificFrom(paths, i, shortPath) ==
    IF i > Len(paths) THEN shortPath
    ELSE LET s1 == IF i = 1 THEN paths[i] ELSE shortPath
             s2 == IF Len(paths[i]) < Len(s1) THEN paths[i] ELSE s1
         IN  leastSpecificFrom(paths, i + 1, s2)

\* leastSpecificPath: the shortest path, the first one among equals
leastSpecificPath(paths) == leastSpecificFrom(paths, 1, << >>)

----------------------------------------------------------------------------
(* Tree flattening (ygot/diff.go, findSetLeaves) *)

\* the DiffOpt values of one Diff call
DiffOpts(ignoreAdditions, mapToSinglePath, preferShadowPath) ==
    [IgnoreAdditions |-> ignoreAdditions,
     MapToSinglePath |-> mapToSinglePath,
     PreferShadowPath |-> preferShadowPath]

NoDiffOpts == DiffOpts(FALSE, FALSE, FALSE)

\* hasDiffPathOpt: the DiffPathOpt among the options (a missing one acts as
\* one with both fields false)
hasDiffPathOpt(o) ==
    [MapToSinglePath |-> o.MapToSinglePath, PreferShadowPath |-> o.PreferShadowPath]

\* hasIgnoreAdditions never finding the option
hasIgnoreAdditionsNever(o) == FALSE

\* hasIgnoreAdditions: whether an IgnoreAdditions is among the options
hasIgnoreAdditions(o) == o.IgnoreAdditions

\* the schema paths findSetIterFunc reads from the tags of a field: those of
\* the shadow-path tag when PreferShadowPath is set and the tag is there,
\* those of the path tag otherwise
IterSchemaPaths(field, pathOpt) ==
    LET sp == IF pathOpt.PreferShadowPath THEN ShadowSchemaPaths(field) ELSE << >>
    IN  IF Len(sp) = 0 THEN SchemaPaths(field) ELSE sp

\* the schema paths with MapToSinglePath left out of account
MapToSinglePathNever(sp, pathOpt) == sp

\* the schema paths a field is mapped to: the least specific one alone
\* under MapToSinglePath
MapToSinglePath(sp, pathOpt) ==
    IF pathOpt.MapToSinglePath THEN << leastSpecificPath(sp) >> ELSE sp

\* the accumulator of one walk: out (the pathSpec -> value map, in insertion
\* order), processedPaths and the errors met
WalkStart == [out |-> << >>, processedPaths |-> {}, errs |-> FALSE, panic |-> FALSE]

\* findSetIterFunc on one NodeInfo: the walk's accumulator and the node's
\* annotation after the visit
findSetIterFunc(field, parentAnnotation, annotation, isKeyHelper, fieldValue, val, acc, pathOpt) ==
    LET tags == IterSchemaPaths(field, pathOpt)
        \* read only after the test for an empty list of schema paths
        sp == MapToSinglePath(tags, pathOpt)
        vp == nodeValuePath(ParentNode(parentAnnotation), isKeyHelper, fieldValue, sp)
        \* the path strings sorted and joined: one key per list of strings up
        \* to their order, kept as the number of times each string occurs
        keys == [i \in 1..Len(vp.spec.gNMIPaths) |-> PathToString(vp.spec.gNMIPaths[i])]
        key == [str \in Range(keys) |-> Cardinality({i \in 1..Len(keys) : keys[i] = str})]
    IN  \* a panic ends the walk: no later visit runs
        IF acc.panic THEN [acc |-> acc, ann |-> annotation]
        ELSE IF Len(tags) = 0 THEN [acc |-> [acc EXCEPT !.errs = TRUE], ann |-> annotation]
        ELSE IF vp.panic THEN [acc |-> [acc EXCEPT !.panic = TRUE], ann |-> annotation]
        ELSE IF vp.err THEN [acc |-> [acc EXCEPT !.errs = TRUE], ann |-> annotation]
        ELSE IF key \in acc.processedPaths THEN [acc |-> acc, ann |-> annotation]
        ELSE LET acc1 == [acc EXCEPT !.processedPaths = @ \cup {key}]
             IN  IF field.kind # "leaf" \/ isKeyHelper \/ val = Nil
                 THEN [acc |-> acc1, ann |-> Annotated(vp.spec)]
                 ELSE [acc |-> [acc1 EXCEPT !.out = Append(@, [spec |-> vp.spec, val |-> val])],
                       ann |-> Annotated(vp.spec)]

RECURSIVE WalkLeaf(_, _, _, _, _, _)
\* util.ForEachDataField on a leaf field: one visit per path of its "path"
\* tag, from the i-th on; a nil leaf is not visited
WalkLeaf(field, i, val, parentAnnotation, acc, pathOpt) ==
    IF val = Nil \/ i > Len(SchemaPaths(field)) THEN acc
    ELSE WalkLeaf(field, i + 1, val, parentAnnotation,
                  findSetIterFunc(field, parentAnnotation, NoAnnotation, FALSE,
                                  NewEntry(Nil), val, acc, pathOpt).acc,
                  pathOpt)

RECURSIVE WalkFields(_, _, _, _, _)
\* util.ForEachDataField on the fields of one list entry, from the i-th on
WalkFields(e, i, parentAnnotation, acc, pathOpt) ==
    IF i > Len(OrderedListFields) THEN acc
    ELSE LET f == OrderedListFields[i]
         IN  WalkFields(e, i + 1, parentAnnotation,
                        WalkLeaf(f, 1, e[f.name], parentAnnotation, acc, pathOpt),
                        pathOpt)

RECURSIVE WalkEntries(_, _, _, _, _, _)
\* util.ForEachDataField on the entries of the list, in list order, from
\* the i-th on: each entry is visited as a copy of the list field's
\* NodeInfo whose parent is the list field
WalkEntries(field, entries, i, listAnnotation, acc, pathOpt) ==
    IF i > Len(entries) THEN acc
    ELSE LET r == findSetIterFunc(field, listAnnotation, listAnnotation, TRUE,
                                  entries[i], Nil, acc, pathOpt)
         IN  WalkEntries(field, entries, i + 1, listAnnotation,
                         WalkFields(entries[i], 1, r.ann, r.acc, pathOpt),
                         pathOpt)

\* util.ForEachDataField on a Device: the root itself has no StructField and
\* is left without annotation; a nil list is not visited
WalkDevice(s, pathOpt) ==
    LET f == DeviceFields[1]
    IN  IF Len(s.OrderedList) = 0 THEN WalkStart
        ELSE LET r == findSetIterFunc(f, NoAnnotation, NoAnnotation, FALSE,
                                      NewEntry(Nil), Nil, WalkStart, pathOpt)
             IN  WalkEntries(f, s.OrderedList, 1, r.ann, r.acc, pathOpt)

\* findSetLeaves: the set leaves of s, each with its pathSpec; an error when
\* any visit failed, a panic when a visit panicked
findSetLeaves(s, o) ==
    LET w == WalkDevice(s, hasDiffPathOpt(o))
    IN  IF w.panic THEN [err |-> FALSE, panic |-> TRUE, out |-> << >>]
        ELSE IF w.errs THEN [err |-> TRUE, panic |-> FALSE, out |-> << >>]
        ELSE [err |-> FALSE, panic |-> FALSE, out |-> w.out]

\* a map[string]*pathInfo: a function from path strings to pathInfos; the
\* empty one
EmptyStrPathMap == << >>

\* strPathMap[strPath] = info: the entry of that key replaced, or a new one
PutPathInfo(m, info) ==
    [str \in DOMAIN m \cup {info.str} |-> IF str = info.str THEN info ELSE m[str]]

\* the inner loop of toStringPathMap keeping one entry per pathSpec, that
\* of its first path
PutPathsFirstOnly(m, paths, val, j) ==
    IF Len(paths.gNMIPaths) = 0 THEN m
    ELSE PutPathInfo(m, [str |-> PathToString(paths.gNMIPaths[1]),
                         val |-> val, path |-> paths.gNMIPaths[1]])

RECURSIVE PutPaths(_, _, _, _)
\* the inner loop of toStringPathMap: one entry per path of the pathSpec
PutPaths(m, paths, val, j) ==
    IF j > Len(paths.gNMIPaths) THEN m
    ELSE PutPaths(PutPathInfo(m, [str |-> PathToString(paths.gNMIPaths[j]),
                                  val |-> val, path |-> paths.gNMIPaths[j]]),
                  paths, val, j + 1)

RECURSIVE SetToSeq(_)
\* the elements of a set in one order
SetToSeq(S) ==
    IF S = {} THEN << >>
    ELSE Bind(CHOOSE x \in S : TRUE, LAMBDA x : <<x>> \o SetToSeq(S \ {x}))

\* the orders in which a range over a map of these keys can visit them: Go
\* leaves the order unspecified
MapOrders(keys) ==
    {[i \in 1..Len(s) |-> s[p[i]]] :
        s \in {SetToSeq(keys)}, p \in Permutations(1..Cardinality(keys))}

RECURSIVE toStringPathMapFrom(_, _, _, _)
\* the outer loop of toStringPathMap, over the entries of pathMap in the
\* order the range over the map takes, from the i-th on
toStringPathMapFrom(pathMap, order, i, m) ==
    IF i > Len(order) THEN m
    ELSE toStringPathMapFrom(pathMap, order, i + 1,
                             PutPaths(m, pathMap[order[i]].spec, pathMap[order[i]].val, 1))

\* toStringPathMap: the pathSpec -> value map as a path string -> pathInfo
\* map, one for every order the range over pathMap can take (an entry
\* visited later replaces one of the same path string)
toStringPathMap(pathMap) ==
    {toStringPathMapFrom(pm, order, 1, EmptyStrPathMap) :
        pm \in {pathMap}, order \in MapOrders(1..Len(pathMap))}

\* whether strPathMap holds key str, and its entry
HasKey(m, str) == str \in DOMAIN m
Lookup(m, str) == m[str]

----------------------------------------------------------------------------
(* Diff (ygot/diff.go) *)

\* a gnmipb.TypedValue: a scalar string, or a JSON document given as the
\* set of its <<schema path, string>> leaves
StringVal(v) == [kind |-> "string_val", str |-> v, json |-> {}]
JSONVal(leaves) == [kind |-> "json_ietf_val", str |-> "", json |-> leaves]

\* ygot.EncodeTypedValue of a string leaf
EncodeTypedValue(val) == StringVal(val)

\* appendUpdate: the update of pathInfo's path to its encoded value
appendUpdate(n, pathInfo) ==
    [n EXCEPT !.Update = Append(@, [Path |-> pathInfo.path,
                                     Val |-> EncodeTypedValue(pathInfo.val)])]

\* an empty gnmipb.Notification
EmptyNotification == [Update |-> << >>, Delete |-> << >>]

RECURSIVE DiffOriginalElseOnEqual(_, _, _, _, _)
\* the first loop of Diff with its else on the inner if: a leaf present on
\* both sides with equal values is listed as deleted, an absent one is not
DiffOriginalElseOnEqual(origLeavesStr, modLeavesStr, order, i, n) ==
    IF i > Len(order) THEN n
    ELSE LET origVal == origLeavesStr[order[i]]
             n1 == IF HasKey(modLeavesStr, origVal.str)
                   THEN LET modVal == Lookup(modLeavesStr, origVal.str)
                        IN  IF origVal.val # modVal.val
                            THEN appendUpdate(n, modVal)
                            ELSE [n EXCEPT !.Delete = Append(@, origVal.path)]
                   ELSE n
         IN  DiffOriginalElseOnEqual(origLeavesStr, modLeavesStr, order, i + 1, n1)

RECURSIVE DiffOriginalStaleValue(_, _, _, _, _)
\* the first loop of Diff with the update of a changed leaf carrying the
\* original's value
DiffOriginalStaleValue(origLeavesStr, modLeavesStr, order, i, n) ==
    IF i > Len(order) THEN n
    ELSE LET origVal == origLeavesStr[order[i]]
             n1 == IF HasKey(modLeavesStr, origVal.str)
                   THEN LET modVal == Lookup(modLeavesStr, origVal.str)
                        IN  IF origVal.val # modVal.val
                            THEN appendUpdate(n, origVal)
                            ELSE n
                   ELSE [n EXCEPT !.Delete = Append(@, origVal.path)]
         IN  DiffOriginalStaleValue(origLeavesStr, modLeavesStr, order, i + 1, n1)

RECURSIVE DiffOriginal(_, _, _, _, _)
\* the first loop of Diff, over the original's leaves in the order the
\* range over the map takes, from the i-th on
DiffOriginal(origLeavesStr, modLeavesStr, order, i, n) ==
    IF i > Len(order) THEN n
    ELSE LET origVal == origLeavesStr[order[i]]
             n1 == IF HasKey(modLeavesStr, origVal.str)
                   THEN LET modVal == Lookup(modLeavesStr, origVal.str)
                        IN  IF origVal.val # modVal.val
                            THEN appendUpdate(n, modVal)
                            ELSE n
                   ELSE [n EXCEPT !.Delete = Append(@, origVal.path)]
         IN  DiffOriginal(origLeavesStr, modLeavesStr, order, i + 1, n1)

RECURSIVE DiffModifiedEveryLeaf(_, _, _, _, _)
\* the second loop of Diff with an update for every leaf of the modified
\* tree, in the original or not
DiffModifiedEveryLeaf(origLeavesStr, modLeavesStr, order, i, n) ==
    IF i > Len(order) THEN n
    ELSE DiffModifiedEveryLeaf(origLeavesStr, modLeavesStr, order, i + 1,
                               appendUpdate(n, modLeavesStr[order[i]]))

RECURSIVE DiffModified(_, _, _, _, _)
\* the second loop of Diff, over the modified's leaves in the order the
\* range over the map takes, from the i-th on
DiffModified(origLeavesStr, modLeavesStr, order, i, n) ==
    IF i > Len(order) THEN n
    ELSE LET modVal == modLeavesStr[order[i]]
             n1 == IF ~HasKey(origLeavesStr, modVal.str)
                   THEN appendUpdate(n, modVal)
                   ELSE n
         IN  DiffModified(origLeavesStr, modLeavesStr, order, i + 1, n1)

\* the two loops of Diff over the path string maps: the notifications they
\* build, one for every order the two ranges can take
DiffLoops(origLeavesStr, modLeavesStr, o) ==
    LET afterOriginal ==
            {DiffOriginal(origLeavesStr, modLeavesStr, order, 1, EmptyNotification) :
                order \in MapOrders(DOMAIN origLeavesStr)}
    IN  IF hasIgnoreAdditions(o) THEN afterOriginal
        ELSE {DiffModified(origLeavesStr, modLeavesStr, order, 1, n1) :
                 n1 \in afterOriginal, order \in MapOrders(DOMAIN modLeavesStr)}

\* what Diff returns: a notification, an error, or nothing after a panic
DiffOk(n) == [err |-> FALSE, panic |-> FALSE, n |-> n]
DiffErr == [err |-> TRUE, panic |-> FALSE, n |-> EmptyNotification]
DiffPanic == [err |-> FALSE, panic |-> TRUE, n |-> EmptyNotification]

\* Diff once both trees are flattened: the notifications that turn orig
\* into mod, one for every order the ranges over the maps can take, or the
\* failure of the first walk that failed
DiffLeaves(origLeaves, modLeaves, o) ==
    IF origLeaves.panic THEN {DiffPanic}
    ELSE IF origLeaves.err THEN {DiffErr}
    ELSE IF modLeaves.panic THEN {DiffPanic}
    ELSE IF modLeaves.err THEN {DiffErr}
    ELSE {DiffOk(n) :
             n \in UNION {DiffLoops(origLeavesStr, modLeavesStr, o) :
                             origLeavesStr \in toStringPathMap(origLeaves.out),
                             modLeavesStr \in toStringPathMap(modLeaves.out)}}

\* Diff(original, modified, opts...)
Diff(orig, mod, o) ==
    UNION {DiffLeaves(origLeaves, modLeaves, o) :
              origLeaves \in {findSetLeaves(orig, o)},
              modLeaves \in {findSetLeaves(mod, o)}}

----------------------------------------------------------------------------
(* The ordered map of list entries *)

HasEntry(t, k) == \E i \in 1..Len(t.OrderedList) : t.OrderedList[i].k = k

GetEntry(t, k) == t.OrderedList[CHOOSE i \in 1..Len(t.OrderedList) : t.OrderedList[i].k = k]

\* the entry stored under e.k replaced by e (its position kept), or e
\* appended when the key is new
PutEntry(t, e) ==
    IF HasEntry(t, e.k)
    THEN [t EXCEPT !.OrderedList =
            [i \in 1..Len(@) |-> IF @[i].k = e.k THEN e ELSE @[i]]]
    ELSE [t EXCEPT !.OrderedList = Append(@, e)]

\* the entry stored under k removed, the order of the others kept
RemoveEntry(t, k) ==
    [t EXCEPT !.OrderedList = SelectSeq(@, LAMBDA e : e.k # k)]

\* the entry under k created with its key leaf populated, unless present
CreateEntry(t, k) == IF HasEntry(t, k) THEN t ELSE PutEntry(t, NewEntry(k))

----------------------------------------------------------------------------
(* Address resolution against the struct tags (ytypes, retrieveNode) *)

Names(p) == [i \in 1..Len(p) |-> p[i].name]
NoKeys(p) == \A i \in 1..Len(p) : p[i].key = {}
IsPrefix(a, b) == Len(a) <= Len(b) /\ SubSeq(b, 1, Len(a)) = a
IsProperPrefix(a, b) == Len(a) < Len(b) /\ SubSeq(b, 1, Len(a)) = a

\* the paths a field is addressed by, and the paths that are recognised
\* but silently ignored: the "shadow-path" tag takes the place of the
\* "path" tag when shadow paths are preferred and the field has one
EffectivePaths(f, preferShadowPath) ==
    IF preferShadowPath /\ Len(ShadowSchemaPaths(f)) > 0
    THEN ShadowSchemaPaths(f) ELSE SchemaPaths(f)
IgnoredPaths(f, preferShadowPath) ==
    IF preferShadowPath /\ Len(ShadowSchemaPaths(f)) > 0
    THEN SchemaPaths(f) ELSE ShadowSchemaPaths(f)

FieldNames == {OrderedListFields[i].name : i \in 1..Len(OrderedListFields)}
FieldOf(name) == OrderedListFields[CHOOSE i \in 1..Len(OrderedListFields) :
                                        OrderedListFields[i].name = name]

\* what an address denotes: kind, the list key on the way (or Nil) and the
\* fields of the entry it covers
Target(kind, k, fields) == [kind |-> kind, k |-> k, fields |-> fields]

\* an address relative to an OrderedList entry
ResolveEntry(k, rest, preferShadowPath) ==
    LET names == Names(rest)
        active == {n \in FieldNames :
                     names \in Range(EffectivePaths(FieldOf(n), preferShadowPath))}
        ignored == {n \in FieldNames :
                     names \in Range(IgnoredPaths(FieldOf(n), preferShadowPath))}
        under == {n \in FieldNames :
                     \E q \in Range(EffectivePaths(FieldOf(n), preferShadowPath)) :
                        IsProperPrefix(names, q)}
        underIgnored == {n \in FieldNames :
                     \E q \in Range(IgnoredPaths(FieldOf(n), preferShadowPath)) :
                        IsProperPrefix(names, q)}
    IN  IF Len(rest) = 0 THEN Target("entry", k, FieldNames)
        ELSE IF ~NoKeys(rest) THEN Target("nomatch", k, {})
        ELSE IF active # {} THEN Target("leaf", k, active)
        ELSE IF ignored # {} THEN Target("ignored", k, {})
        ELSE IF under # {} THEN Target("partial", k, under)
        ELSE IF underIgnored # {} THEN Target("ignored", k, {})
        ELSE Target("nomatch", k, {})

\* an address relative to the Device
ResolveDevice(path, preferShadowPath) ==
    LET lp == SchemaPaths(DeviceFields[1])[1]
        n == Len(lp)
    IN  IF Len(path) = 0 THEN Target("self", Nil, {})
        ELSE IF Len(path) < n
        THEN IF NoKeys(path) /\ IsProperPrefix(Names(path), lp)
             THEN Target("partial", Nil, {})
             ELSE Target("nomatch", Nil, {})
        ELSE IF Names(SubSeq(path, 1, n)) # lp \/ ~NoKeys(SubSeq(path, 1, n - 1))
        THEN Target("nomatch", Nil, {})
        ELSE IF path[n].key = {}
        THEN IF Len(path) = n THEN Target("list", Nil, {})
             ELSE Target("nomatch", Nil, {})
        ELSE IF \E k \in Keys : path[n].key = {<<"key", k>>}
        THEN ResolveEntry((CHOOSE k \in Keys : path[n].key = {<<"key", k>>}),
                          SubSeq(path, n + 1, Len(path)), preferShadowPath)
        ELSE Target("nomatch", Nil, {})

\* an address relative to a node: the Device (node = Nil) or the entry
\* stored under a key
Resolve(node, path, preferShadowPath) ==
    IF node = Nil THEN ResolveDevice(path, preferShadowPath)
    ELSE Bind(ResolveEntry(node, path, preferShadowPath), LAMBDA t :
             IF t.kind = "entry" THEN Target("self", node, FieldNames) ELSE t)

----------------------------------------------------------------------------
(* The node operations of ytypes: DeleteNode, SetNode, GetOrCreateNode *)

\* the (tree, error) outcome of a node operation
Done(t) == [t |-> t, err |-> FALSE]
Failed(t) == [t |-> t, err |-> TRUE]

\* the named fields of an entry reset to nil
ClearFields(e, fields) ==
    [n \in DOMAIN e |-> IF n \in fields THEN Nil ELSE e[n]]

\* the named fields of an entry set to v
SetFields(e, fields, v) ==
    [n \in DOMAIN e |-> IF n \in fields THEN v ELSE e[n]]

\* ytypes.DeleteNode: the subtree or value at path removed.  The empty path
\* zeroes the node itself; an address that is only a prefix of compressed
\* field paths removes every field below it; removing what is not there is
\* no error; an address no field matches is an error.
DeleteNode(t, node, path, preferShadowPath) ==
    Bind(Resolve(node, path, preferShadowPath), LAMBDA tg :
        CASE tg.kind = "self" ->
                IF node = Nil THEN Done([t EXCEPT !.OrderedList = << >>])
                ELSE IF HasEntry(t, node)
                THEN Done(PutEntry(t, ClearFields(GetEntry(t, node), FieldNames)))
                ELSE Done(t)
          [] tg.kind \in {"list"} -> Done([t EXCEPT !.OrderedList = << >>])
          [] tg.kind = "partial" ->
                IF tg.k = Nil THEN Done([t EXCEPT !.OrderedList = << >>])
                ELSE IF HasEntry(t, tg.k)
                THEN Done(PutEntry(t, ClearFields(GetEntry(t, tg.k), tg.fields)))
                ELSE Done(t)
          [] tg.kind = "entry" -> Done(RemoveEntry(t, tg.k))
          [] tg.kind = "leaf" ->
                IF HasEntry(t, tg.k)
                THEN Done(PutEntry(t, ClearFields(GetEntry(t, tg.k), tg.fields)))
                ELSE Done(t)
          [] tg.kind = "ignored" -> Done(t)
          [] OTHER ->
                IF tg.k = Nil \/ HasEntry(t, tg.k) THEN Failed(t) ELSE Done(t))

RECURSIVE UnmarshalLeaves(_, _, _, _)
\* the leaves of a JSON document written into the entry: a leaf at a path
\* of a field sets it, a leaf at an ignored path is skipped, and so is a
\* leaf no field matches (the caller reports those)
UnmarshalLeaves(e, leaves, k, preferShadowPath) ==
    IF leaves = {} THEN e
    ELSE Bind(CHOOSE x \in leaves : TRUE, LAMBDA l :
         Bind(ResolveEntry(k, schemaPathTogNMIPath(l[1]), preferShadowPath),
              LAMBDA tg :
             UnmarshalLeaves(IF tg.kind = "leaf" THEN SetFields(e, tg.fields, l[2])
                             ELSE e,
                             leaves \ {l}, k, preferShadowPath)))

\* whether a JSON document holds a leaf that no field of the entry matches
HasExtraFields(leaves, k, preferShadowPath) ==
    \E l \in leaves :
        ResolveEntry(k, schemaPathTogNMIPath(l[1]), preferShadowPath).kind
            \notin {"leaf", "ignored"}

\* ytypes.Unmarshal of a JSON document into the entry stored under k
UnmarshalEntry(t, k, val, preferShadowPath, ignoreExtraFields) ==
    IF val.kind # "json_ietf_val" THEN Failed(t)
    ELSE Bind(PutEntry(t, UnmarshalLeaves(GetEntry(t, k), val.json, k,
                                          preferShadowPath)), LAMBDA t1 :
             IF HasExtraFields(val.json, k, preferShadowPath) /\ ~ignoreExtraFields
             THEN Failed(t1)
             ELSE Done(t1))

\* ytypes.SetNode with InitMissingElements: the value written at path, the
\* list entry on the way created when missing.  A scalar goes to a leaf, a
\* JSON document to a list entry and merges into it; an ignored path
\* changes no field; every other address is an error.
SetNode(t, node, path, val, preferShadowPath, ignoreExtraFields) ==
    Bind(Resolve(node, path, preferShadowPath), LAMBDA tg :
    Bind(IF tg.k = Nil THEN t ELSE CreateEntry(t, tg.k), LAMBDA t1 :
        CASE tg.kind = "self" ->
                IF node = Nil THEN Failed(t)
                ELSE UnmarshalEntry(t1, node, val, preferShadowPath, ignoreExtraFields)
          [] tg.kind = "entry" ->
                UnmarshalEntry(t1, tg.k, val, preferShadowPath, ignoreExtraFields)
          [] tg.kind = "leaf" ->
                IF val.kind = "string_val"
                THEN Done(PutEntry(t1, SetFields(GetEntry(t1, tg.k), tg.fields, val.str)))
                ELSE Failed(t1)
          [] tg.kind = "ignored" -> Done(t1)
          [] OTHER -> Failed(t1)))

\* ytypes.GetOrCreateNode: the node at path, created when missing; isStruct
\* tells a GoStruct from a leaf
GetOrCreateNode(t, path, preferShadowPath) ==
    Bind(Resolve(Nil, path, preferShadowPath), LAMBDA tg :
    Bind(IF tg.k = Nil THEN t ELSE CreateEntry(t, tg.k), LAMBDA t1 :
        CASE tg.kind = "self" -> [t |-> t, err |-> FALSE, isStruct |-> TRUE, node |-> Nil]
          [] tg.kind = "entry" -> [t |-> t1, err |-> FALSE, isStruct |-> TRUE, node |-> tg.k]
          [] tg.kind = "leaf" -> [t |-> t1, err |-> FALSE, isStruct |-> FALSE, node |-> Nil]
          [] OTHER -> [t |-> t1, err |-> TRUE, isStruct |-> FALSE, node |-> Nil]))

----------------------------------------------------------------------------
(* UnmarshalSetRequest and UnmarshalNotifications (ytypes) *)

\* a gnmipb.Path pointer that may be nil
NilPath == [nil |-> TRUE, elem |-> << >>]
PathPtr(p) == [nil |-> FALSE, elem |-> p]

\* the UnmarshalOpt values of one call
UnmarshalOpts(preferShadowPath, ignoreExtraFields) ==
    [PreferShadowPath |-> preferShadowPath, IgnoreExtraFields |-> ignoreExtraFields]

hasPreferShadowPath(o) == o.PreferShadowPath
hasIgnoreExtraFields(o) == o.IgnoreExtraFields

\* one call of a node operation, as logged: the operation, the GoStruct it
\* is called on (Nil is schema.Root, else the key of a list entry), its
\* path and value, and whether it returned an error
Logged(op, node, path, val, failed) ==
    [op |-> op, node |-> node, path |-> path, val |-> val, err |-> failed]
NoVal == StringVal(Nil)

\* the running outcome of a request: the tree, the error and the log
Run(t, failed, l) == [t |-> t, err |-> failed, log |-> l]

\* getOrCreateNode: the GoStruct at the prefix; a prefix that points to a
\* leaf is an error
getOrCreateNode(t, path, preferShadowPath) ==
    Bind(GetOrCreateNode(t, path, preferShadowPath), LAMBDA g :
        IF g.err THEN [t |-> g.t, err |-> TRUE, node |-> Nil]
        ELSE IF ~g.isStruct THEN [t |-> g.t, err |-> TRUE, node |-> Nil]
        ELSE [t |-> g.t, err |-> FALSE, node |-> g.node])

RECURSIVE deletePathsKeepGoing(_, _, _, _, _, _)
\* deletePaths that collects the error of a DeleteNode and goes on with the
\* next path
deletePathsKeepGoing(r, node, prefix, paths, i, preferShadowPath) ==
    IF i > Len(paths) THEN r
    ELSE Bind(IF ~prefix.nil THEN JoinPaths(prefix.elem, paths[i]) ELSE paths[i],
              LAMBDA path :
         Bind(DeleteNode(r.t, node, path, preferShadowPath), LAMBDA d :
             deletePathsKeepGoing(
                 Run(d.t, r.err \/ d.err,
                     Append(r.log, Logged("DeleteNode", node, path, NoVal, d.err))),
                 node, prefix, paths, i + 1, preferShadowPath)))

RECURSIVE deletePaths(_, _, _, _, _, _)
\* deletePaths: DeleteNode on every path, the prefix joined when there is
\* one; the first error ends the loop
deletePaths(r, node, prefix, paths, i, preferShadowPath) ==
    IF i > Len(paths) THEN r
    ELSE Bind(IF ~prefix.nil THEN JoinPaths(prefix.elem, paths[i]) ELSE paths[i],
              LAMBDA path :
         Bind(DeleteNode(r.t, node, path, preferShadowPath), LAMBDA d :
         Bind(Run(d.t, d.err, Append(r.log, Logged("DeleteNode", node, path, NoVal, d.err))),
              LAMBDA r1 :
             IF d.err THEN r1
             ELSE deletePaths(r1, node, prefix, paths, i + 1, preferShadowPath))))

\* joinPrefixToUpdate: the update with the prefix joined to its path; the
\* update itself when there is no prefix
joinPrefixToUpdate(prefix, update) ==
    IF prefix.nil THEN update
    ELSE [Path |-> JoinPaths(prefix.elem, update.Path), Val |-> update.Val]

\* setNode that never hands PreferShadowPath on to SetNode
setNodeNoShadowOpt(t, node, update, preferShadowPath, ignoreExtraFields) ==
    SetNode(t, node, update.Path, update.Val, FALSE, ignoreExtraFields)

\* setNode: SetNode with InitMissingElements and the caller's options
setNode(t, node, update, preferShadowPath, ignoreExtraFields) ==
    SetNode(t, node, update.Path, update.Val, preferShadowPath, ignoreExtraFields)

RECURSIVE replacePathsNoDelete(_, _, _, _, _, _, _)
\* replacePaths without its DeleteNode: every update is only set
replacePathsNoDelete(r, node, prefix, updates, i, preferShadowPath, ignoreExtraFields) ==
    IF i > Len(updates) THEN r
    ELSE Bind(joinPrefixToUpdate(prefix, updates[i]), LAMBDA update :
         Bind(setNode(r.t, node, update, preferShadowPath, ignoreExtraFields),
              LAMBDA s :
         Bind(Run(s.t, s.err,
                  Append(r.log, Logged("SetNode", node, update.Path, update.Val,
                                       s.err))),
              LAMBDA r1 :
             IF s.err THEN r1
             ELSE replacePathsNoDelete(r1, node, prefix, updates, i + 1,
                                       preferShadowPath, ignoreExtraFields))))

RECURSIVE replacePaths(_, _, _, _, _, _, _)
\* replacePaths: for every update DeleteNode at its path, then setNode; the
\* first error ends the loop
replacePaths(r, node, prefix, updates, i, preferShadowPath, ignoreExtraFields) ==
    IF i > Len(updates) THEN r
    ELSE Bind(joinPrefixToUpdate(prefix, updates[i]), LAMBDA update :
         Bind(DeleteNode(r.t, node, update.Path, preferShadowPath), LAMBDA d :
         Bind(Append(r.log, Logged("DeleteNode", node, update.Path, NoVal, d.err)),
              LAMBDA l1 :
             IF d.err THEN Run(d.t, TRUE, l1)
             ELSE
         Bind(setNode(d.t, node, update, preferShadowPath, ignoreExtraFields),
              LAMBDA s :
         Bind(Append(l1, Logged("SetNode", node, update.Path, update.Val, s.err)),
              LAMBDA l2 :
             IF s.err THEN Run(s.t, TRUE, l2)
             ELSE replacePaths(Run(s.t, FALSE, l2), node, prefix, updates, i + 1,
                               preferShadowPath, ignoreExtraFields))))))

RECURSIVE updatePaths(_, _, _, _, _, _, _)
\* updatePaths: setNode for every update; the first error ends the loop
updatePaths(r, node, prefix, updates, i, preferShadowPath, ignoreExtraFields) ==
    IF i > Len(updates) THEN r
    ELSE Bind(joinPrefixToUpdate(prefix, updates[i]), LAMBDA update :
         Bind(setNode(r.t, node, update, preferShadowPath, ignoreExtraFields),
              LAMBDA s :
         Bind(Run(s.t, s.err,
                  Append(r.log, Logged("SetNode", node, update.Path, update.Val,
                                       s.err))),
              LAMBDA r1 :
             IF s.err THEN r1
             ELSE updatePaths(r1, node, prefix, updates, i + 1,
                              preferShadowPath, ignoreExtraFields))))

\* a gnmipb.SetRequest
SetRequest(prefix, delete, replace, update) ==
    [Prefix |-> prefix, Delete |-> delete, Replace |-> replace, Update |-> update]

\* UnmarshalSetRequest processing the updates first, then the replaces,
\* then the deletes
UnmarshalSetRequestUpdatesFirst(t, req, o) ==
    Bind(hasPreferShadowPath(o), LAMBDA preferShadowPath :
    Bind(hasIgnoreExtraFields(o), LAMBDA ignoreExtraFields :
    Bind(getOrCreateNode(t, req.Prefix, preferShadowPath), LAMBDA g :
    Bind(IF g.err THEN Nil ELSE g.node, LAMBDA node :
    Bind(IF g.err THEN PathPtr(req.Prefix) ELSE NilPath, LAMBDA prefix :
    Bind(updatePaths(Run(g.t, FALSE,
                         << Logged("getOrCreateNode", Nil, req.Prefix, NoVal, g.err) >>),
                     node, prefix, req.Update, 1,
                     preferShadowPath, ignoreExtraFields), LAMBDA u :
        IF u.err THEN u
        ELSE
    Bind(replacePaths(u, node, prefix, req.Replace, 1,
                      preferShadowPath, ignoreExtraFields), LAMBDA rp :
        IF rp.err THEN rp
        ELSE deletePaths(rp, node, prefix, req.Delete, 1, preferShadowPath))))))))

\* UnmarshalSetRequest without the fallback: a prefix that getOrCreateNode
\* fails on is the error of the request
UnmarshalSetRequestNoFallback(t, req, o) ==
    Bind(hasPreferShadowPath(o), LAMBDA preferShadowPath :
    Bind(hasIgnoreExtraFields(o), LAMBDA ignoreExtraFields :
    Bind(getOrCreateNode(t, req.Prefix, preferShadowPath), LAMBDA g :
    Bind(Run(g.t, g.err,
             << Logged("getOrCreateNode", Nil, req.Prefix, NoVal, g.err) >>),
         LAMBDA r0 :
        IF g.err THEN r0
        ELSE
    Bind(deletePaths(r0, g.node, NilPath, req.Delete, 1, preferShadowPath),
         LAMBDA d :
        IF d.err THEN d
        ELSE
    Bind(replacePaths(d, g.node, NilPath, req.Replace, 1,
                      preferShadowPath, ignoreExtraFields), LAMBDA rp :
        IF rp.err THEN rp
        ELSE updatePaths(rp, g.node, NilPath, req.Update, 1,
                         preferShadowPath, ignoreExtraFields)))))))

\* UnmarshalSetRequest: the request applied on schema.Root; deletes, then
\* replaces, then updates, ended by the first error.  When the prefix does
\* not resolve, the operations run on the root with the prefix joined to
\* every path.
UnmarshalSetRequest(t, req, o) ==
    Bind(hasPreferShadowPath(o), LAMBDA preferShadowPath :
    Bind(hasIgnoreExtraFields(o), LAMBDA ignoreExtraFields :
    Bind(getOrCreateNode(t, req.Prefix, preferShadowPath), LAMBDA g :
    Bind(IF g.err THEN Nil ELSE g.node, LAMBDA node :
    Bind(IF g.err THEN PathPtr(req.Prefix) ELSE NilPath, LAMBDA prefix :
    Bind(deletePaths(Run(g.t, FALSE,
                         << Logged("getOrCreateNode", Nil, req.Prefix, NoVal, g.err) >>),
                     node, prefix, req.Delete, 1, preferShadowPath), LAMBDA d :
        IF d.err THEN d
        ELSE
    Bind(replacePaths(d, node, prefix, req.Replace, 1,
                      preferShadowPath, ignoreExtraFields), LAMBDA rp :
        IF rp.err THEN rp
        ELSE updatePaths(rp, node, prefix, req.Update, 1,
                         preferShadowPath, ignoreExtraFields))))))))

\* a gnmipb.Notification
Notification(prefix, atomic, delete, update) ==
    [Prefix |-> prefix, Atomic |-> atomic, Delete |-> delete, Update |-> update]

RECURSIVE UnmarshalNotificationsFromNoAtomic(_, _, _, _)
\* UnmarshalNotifications not looking at the Atomic flag
UnmarshalNotificationsFromNoAtomic(r, ns, i, o) ==
    IF i > Len(ns) THEN r
    ELSE Bind(ns[i], LAMBDA n :
         Bind(UnmarshalSetRequest(r.t,
                  SetRequest(n.Prefix, n.Delete, << >>, n.Update), o),
              LAMBDA u :
         Bind(Run(u.t, u.err, r.log \o u.log), LAMBDA r1 :
             IF u.err THEN r1
             ELSE UnmarshalNotificationsFromNoAtomic(r1, ns, i + 1, o))))

RECURSIVE UnmarshalNotificationsFrom(_, _, _, _)
\* the notifications from the i-th on: each one is a SetRequest of its
\* deletes (the empty path appended when it is atomic) and its updates
UnmarshalNotificationsFrom(r, ns, i, o) ==
    IF i > Len(ns) THEN r
    ELSE Bind(ns[i], LAMBDA n :
         Bind(IF n.Atomic THEN Append(n.Delete, << >>) ELSE n.Delete,
              LAMBDA deletePathsOfN :
         Bind(UnmarshalSetRequest(r.t,
                  SetRequest(n.Prefix, deletePathsOfN, << >>, n.Update), o),
              LAMBDA u :
         Bind(Run(u.t, u.err, r.log \o u.log), LAMBDA r1 :
             IF u.err THEN r1 ELSE UnmarshalNotificationsFrom(r1, ns, i + 1, o)))))

\* UnmarshalNotifications: every notification applied on schema.Root as a
\* SetRequest, in order, ended by the first error
UnmarshalNotifications(t, ns, o) == UnmarshalNotificationsFrom(Run(t, FALSE, << >>), ns, 1, o)

----------------------------------------------------------------------------
(* The trees and requests the scenarios draw from *)

\* the order in which the trees handed to Diff hold their entries
KeyOrder == <<"foo", "bar">>

\* the values the state-only leaf ro-value takes in the trees handed to Diff
RoValues == {"foo-val"}

\* the entries under key k as the generated code builds them: the key leaf
\* equals the lookup key (ro-value is set in entries of the first key only)
EntryChoices(k) ==
    {EntryOf(k, k, ro, v) :
        ro \in (IF k = KeyOrder[1] THEN RoValues ELSE {}) \cup {Nil},
        v \in Values \cup {Nil}}

RECURSIVE EntrySeqs(_)
\* the entry sequences over the keys of KeyOrder from the i-th on
EntrySeqs(i) ==
    IF i > Len(KeyOrder) THEN {<< >>}
    ELSE LET rest == EntrySeqs(i + 1)
         IN  rest \cup {<<e>> \o s : e \in EntryChoices(KeyOrder[i]), s \in rest}

\* a tree whose entry foo lost its key leaf (the key leaf was deleted)
KeylessTrees ==
    {[OrderedList |-> <<EntryOf("foo", Nil, Nil, v)>>] : v \in {Nil, "foo-val"}}

\* the number of leaves set in the entries s
LeafCount(s) ==
    Cardinality({<<i, f>> \in (1..Len(s)) \X {"Key", "RoValue", "Value"} : s[i][f] # Nil})

\* the trees handed to Diff
DiffTrees ==
    {[OrderedList |-> s] :
        s \in {x \in EntrySeqs(1) : Len(x) <= MaxEntries /\ LeafCount(x) <= MaxLeaves}}
        \cup KeylessTrees

\* the option sets handed to Diff
AllDiffOpts == {DiffOpts(a, b, c) : a \in BOOLEAN, b \in BOOLEAN, c \in BOOLEAN}

\* absolute addresses
EntryPath(k) == << Elem("ordered-lists", {}), Elem("ordered-list", {<<"key", k>>}) >>
LeafPath(k, sp) == EntryPath(k) \o schemaPathTogNMIPath(sp)
BadPath == << Elem("zz", {}) >>

\* the leaves x, y and z of the requests
PathX == LeafPath("foo", <<"config", "value">>)
PathY == LeafPath("foo", <<"state", "ro-value">>)
PathZ == LeafPath("bar", <<"config", "value">>)
\* the leaf x at the path of its "shadow-path" tag
PathXShadow == LeafPath("foo", <<"state", "value">>)

\* an address as the request states it under a prefix: relative to the
\* prefix when it lies below it, unchanged otherwise
Relative(prefix, p) ==
    IF IsPrefix(prefix, p) THEN SubSeq(p, Len(prefix) + 1, Len(p)) ELSE p

Upd(p, v) == [Path |-> p, Val |-> v]

\* the addresses and updates the requests are made of
DeleteTargets == {PathX, EntryPath("foo"), BadPath}
ReplaceTargets ==
    {Upd(PathY, StringVal("bar-val")),
     Upd(EntryPath("foo"), JSONVal({<< <<"config", "value">>, "bar-val" >>})),
     Upd(BadPath, StringVal("bar-val"))}
UpdateTargets ==
    {Upd(PathZ, StringVal("foo-val")),
     Upd(PathX, StringVal("bar-val")),
     Upd(PathX, StringVal("foo-val")),
     Upd(PathXShadow, StringVal("bar-val")),
     Upd(BadPath, StringVal("foo-val"))}

\* the prefixes: none, the compressed-out container, a list entry
Prefixes == {<< >>, << Elem("ordered-lists", {}) >>, EntryPath("foo")}

RelPaths(prefix, ps) == [i \in 1..Len(ps) |-> Relative(prefix, ps[i])]
RelUpdates(prefix, us) ==
    [i \in 1..Len(us) |-> Upd(Relative(prefix, us[i].Path), us[i].Val)]

\* the SetRequests: at most MaxOps operations in all
SetRequests ==
    UNION {{SetRequest(p, RelPaths(p, d), RelUpdates(p, r), RelUpdates(p, u)) :
                p \in Prefixes,
                d \in [1..n[1] -> DeleteTargets],
                r \in [1..n[2] -> ReplaceTargets],
                u \in [1..n[3] -> UpdateTargets]} :
            n \in {m \in (0..MaxOps) \X (0..MaxOps) \X (0..MaxOps) :
                      m[1] + m[2] + m[3] <= MaxOps}}

\* the notifications: a prefix, the atomic flag, at most one delete and one
\* update
NotifDeletes == {<< >>, <<PathY>>}
NotifUpdates == {<<Upd(PathX, StringVal("bar-val"))>>, <<Upd(BadPath, StringVal("foo-val"))>>}
Notifications ==
    {Notification(p, a, RelPaths(p, d), RelUpdates(p, u)) :
        p \in Prefixes, a \in BOOLEAN, d \in NotifDeletes, u \in NotifUpdates}

\* the trees a mutation scenario starts from: the empty Device, the tree
\* with x = 1, y = 2 and z unset, and a tree with both entries
StartTrees ==
    {EmptyDevice,
     [OrderedList |-> <<EntryOf("foo", "foo", "foo-val", "foo-val")>>],
     [OrderedList |-> <<EntryOf("foo", "foo", Nil, "foo-val"),
                        EntryOf("bar", "bar", Nil, "bar-val")>>]}

AllUnmarshalOpts == {UnmarshalOpts(a, FALSE) : a \in BOOLEAN}

\* the call record of a scenario
NoCall == [kind |-> "none", req |-> SetRequest(<< >>, << >>, << >>, << >>), ns |-> << >>]
SetRequestCall(req) == [kind |-> "SetRequest", req |-> req, ns |-> << >>]
NotificationsCall(ns) == [kind |-> "Notifications", req |-> NoCall.req, ns |-> ns]

NoNotif == [err |-> FALSE, panic |-> FALSE, n |-> EmptyNotification]

\* no function called yet, nothing returned
NoFn == [name |-> "none"]
NoOut == [name |-> "none"]

----------------------------------------------------------------------------
(* Ordered maps and their validation (ytypes.Validate, the generated
   OrderedList_OrderedMap and OrderedMultikeyedList_OrderedMap) *)

\* a list without max-elements
Unbounded == -1

\* min-elements and max-elements of list ordered-list
MinElements == 0
MaxElements == 5

\* list ordered-list with one more element allowed
OrderedListSchemaOneMore ==
    [name |-> "OrderedList", keyNames |-> <<"key">>,
     minElements |-> MinElements, maxElements |-> MaxElements + 1]

\* list ordered-list: key "key", min-elements 0, max-elements 5
OrderedListSchema ==
    [name |-> "OrderedList", keyNames |-> <<"key">>,
     minElements |-> MinElements, maxElements |-> MaxElements]

\* list ordered-multikeyed-list with key "key1" only
OrderedMultikeyedListSchemaKey1Only ==
    [name |-> "OrderedMultikeyedList", keyNames |-> <<"key1">>,
     minElements |-> MinElements, maxElements |-> Unbounded]

\* list ordered-multikeyed-list: key "key1 key2", no bounds
OrderedMultikeyedListSchema ==
    [name |-> "OrderedMultikeyedList", keyNames |-> <<"key1", "key2">>,
     minElements |-> MinElements, maxElements |-> Unbounded]

ListSchemas == {OrderedListSchema, OrderedMultikeyedListSchema}

\* the keys the single-keyed list is filled with, in the order they are
\* appended
AppendOrder ==
    <<"alpha", "bravo", "charlie", "delta", "echo", "foxtrot", "golf", "hotel">>

\* the lookup keys of the lists: one string, or a string and a uint64
LookupKeys(schema) ==
    IF schema = OrderedListSchema THEN {<<k>> : k \in Range(AppendOrder)}
    ELSE {"foo", "bar"} \X {42, 43}

\* a nil *uint64
NilUint64 == -1

\* the nil pointer of the c-th key leaf: key2 is a uint64, the others are
\* strings
NilLeaf(schema, c) ==
    IF schema = OrderedMultikeyedListSchema /\ c = 2 THEN NilUint64 ELSE Nil

\* the values a key leaf is set to behind the map's back
KeyLeafValues(schema, c) ==
    IF schema = OrderedListSchema THEN {Nil, "foosball"}
    ELSE IF c = 1 THEN {Nil, "foo", "bar"} ELSE {NilUint64, 42, 43}

\* an entry of an ordered map: the key it is stored under and its embedded
\* key leaves
MapEntry(k, leaves) == [k |-> k, leaves |-> leaves]

\* an ordered map: its schema and its entries in order
OrderedMap(schema, entries) == [schema |-> schema, entries |-> entries]

\* whether the map holds an entry under key k, and that entry (Get)
HasMapKey(m, k) == \E i \in 1..Len(m.entries) : m.entries[i].k = k
Get(m, k) ==
    IF HasMapKey(m, k)
    THEN [found |-> TRUE,
          entry |-> m.entries[CHOOSE i \in 1..Len(m.entries) : m.entries[i].k = k]]
    ELSE [found |-> FALSE, entry |-> MapEntry(k, k)]

\* AppendNew: a new entry with its key leaves populated, behind the last
\* one; a key the map already holds is an error and changes nothing
AppendNew(m, k) ==
    IF HasMapKey(m, k) THEN [om |-> m, err |-> TRUE]
    ELSE [om |-> [m EXCEPT !.entries = Append(@, MapEntry(k, k))], err |-> FALSE]

\* the key leaf c of the i-th entry set to v directly
SetKeyLeaf(m, i, c, v) == [m EXCEPT !.entries[i].leaves[c] = v]

\* whether every key leaf of an entry is set and equals the component of
\* the key the entry is stored under
KeyLeavesMatch(schema, e) ==
    \A c \in 1..Len(schema.keyNames) :
        e.leaves[c] # NilLeaf(schema, c) /\ e.leaves[c] = e.k[c]

\* ytypes.Validate of an ordered map against its list schema: whether it
\* reports an error
Validate(schema, m) ==
    \/ \E i \in 1..Len(m.entries) : ~KeyLeavesMatch(schema, m.entries[i])
    \/ \E i, j \in 1..Len(m.entries) : i # j /\ m.entries[i].k = m.entries[j].k
    \/ Len(m.entries) < schema.minElements
    \/ (schema.maxElements # Unbounded /\ Len(m.entries) > schema.maxElements)

\* no ordered map
NoMap == OrderedMap(OrderedListSchema, << >>)

----------------------------------------------------------------------------
(* The mutation scenario: a call on schema.Root, then the same call again *)

Init ==
    /\ root \in StartTrees
    /\ original = EmptyDevice
    /\ modified = EmptyDevice
    /\ opts = NoDiffOpts
    /\ uopts = UnmarshalOpts(FALSE, FALSE)
    /\ notif = NoNotif
    /\ call = NoCall
    /\ pre = root
    /\ first = root
    /\ err = FALSE
    /\ log = << >>
    /\ fn = NoFn
    /\ out = NoOut
    /\ om = NoMap
    /\ phase = "idle"

\* the outcome r of call c under options o: schema.Root is overwritten and
\* the error returned; pre keeps the tree the call was made on and first
\* the tree the first call left
Applied(c, o, r, next) ==
    /\ root' = r.t
    /\ err' = r.err
    /\ log' = r.log
    /\ call' = c
    /\ uopts' = o
    /\ phase' = next
    /\ pre' = root
    /\ first' = IF next = "once" THEN r.t ELSE first
    /\ UNCHANGED <<original, modified, opts, notif, fn, out, om>>

\* UnmarshalSetRequest(schema, req, opts...)
SetReq ==
    /\ phase = "idle"
    /\ \E req \in SetRequests, o \in AllUnmarshalOpts :
          Applied(SetRequestCall(req), o, UnmarshalSetRequest(root, req, o), "once")

\* UnmarshalNotifications(schema, ns, opts...)
Notifs ==
    /\ phase = "idle"
    /\ \E ns \in SeqsUpTo(Notifications, MaxNotifs), o \in AllUnmarshalOpts :
          Applied(NotificationsCall(ns), o, UnmarshalNotifications(root, ns, o), "once")

\* the call that succeeded made once more, with the same request
Again ==
    /\ phase = "once"
    /\ ~err
    /\ Applied(call, uopts,
               IF call.kind = "SetRequest"
               THEN UnmarshalSetRequest(root, call.req, uopts)
               ELSE UnmarshalNotifications(root, call.ns, uopts),
               "twice")

Next == SetReq \/ Notifs \/ Again

Spec == Init /\ [][Next]_vars

----------------------------------------------------------------------------
(* The Diff scenario: Diff(original, modified), then the notification
   applied on a copy of original *)

InitDiff ==
    /\ original \in DiffTrees
    /\ modified \in DiffTrees
    /\ root = original
    /\ opts = NoDiffOpts
    /\ uopts = UnmarshalOpts(FALSE, FALSE)
    /\ notif = NoNotif
    /\ call = NoCall
    /\ pre = original
    /\ first = original
    /\ err = FALSE
    /\ log = << >>
    /\ fn = NoFn
    /\ out = NoOut
    /\ om = NoMap
    /\ phase = "start"

\* Diff(original, modified, opts...)
DoDiff ==
    /\ phase = "start"
    /\ \E o \in AllDiffOpts :
          /\ notif' \in Diff(original, modified, o)
          /\ opts' = o
    /\ phase' = "diffed"
    /\ UNCHANGED <<root, original, modified, uopts, call, pre, first, err, log, fn, out,
                   om>>

\* the notification of Diff as a caller hands it on: no prefix, not atomic
AsNotification(n) == Notification(<< >>, FALSE, n.Delete, n.Update)

\* UnmarshalNotifications(schema, {Diff's notification}) on the copy of
\* original, reading the paths as Diff wrote them
ApplyDiff ==
    /\ phase = "diffed"
    /\ ~notif.err /\ ~notif.panic
    /\ \E ns \in {<< AsNotification(notif.n) >>},
          o \in {UnmarshalOpts(opts.PreferShadowPath, FALSE)} :
          \E r \in {UnmarshalNotifications(root, ns, o)} :
              /\ root' = r.t
              /\ err' = r.err
              /\ log' = r.log
              /\ call' = NotificationsCall(ns)
              /\ uopts' = o
    /\ phase' = "applied"
    /\ UNCHANGED <<original, modified, opts, notif, pre, first, fn, out, om>>

NextDiff == DoDiff \/ ApplyDiff

SpecDiff == InitDiff /\ [][NextDiff]_vars

----------------------------------------------------------------------------
(* The path algebra scenario: one call of a function of ygot/diff.go on
   arguments a caller of the package can build *)

\* the schema paths of the struct tags the calls draw from: two of one
\* element, two of two
SchemaPathChoices ==
    {<<"key">>, <<"value">>, <<"config", "key">>, <<"state", "key">>}

\* the values of a "path" tag: at most MaxPaths schema paths, in the order
\* the tag declares them
SchemaPathLists == SeqsUpTo(SchemaPathChoices, MaxPaths)

\* the gNMI paths of the parents: those of a list field of one and of two
\* elements, and of a list entry
ParentPaths ==
    {schemaPathTogNMIPath(<<"ordered-list">>),
     schemaPathTogNMIPath(<<"ordered-lists", "ordered-list">>),
     EntryPath("bar")}

\* the pathSpecs handed to the calls: nil, &pathSpec{}, and those of at
\* most MaxParentPaths paths
PathSpecs ==
    {NilPathSpec, EmptyPathSpec}
        \cup {PathSpec(ps) : ps \in SeqsUpTo(ParentPaths, MaxParentPaths)}

\* the list entries handed to nodeMapPath: with their key, and without
MapEntries == {NewEntry(k) : k \in Keys} \cup {EntryOf("foo", Nil, Nil, Nil)}

InitPaths ==
    /\ root = EmptyDevice
    /\ original = EmptyDevice
    /\ modified = EmptyDevice
    /\ opts = NoDiffOpts
    /\ uopts = UnmarshalOpts(FALSE, FALSE)
    /\ notif = NoNotif
    /\ call = NoCall
    /\ pre = EmptyDevice
    /\ first = EmptyDevice
    /\ err = FALSE
    /\ log = << >>
    /\ fn = NoFn
    /\ out = NoOut
    /\ om = NoMap
    /\ phase = "idle"

\* the call f returned r
Returned(f, r) ==
    /\ fn' = f
    /\ out' = r
    /\ phase' = "returned"
    /\ UNCHANGED <<root, original, modified, opts, uopts, notif, call, pre, first, err, log,
                   om>>

\* leastSpecificPath(paths)
CallLeastSpecificPath ==
    /\ phase = "idle"
    /\ \E paths \in SchemaPathLists :
           Returned([name |-> "leastSpecificPath", paths |-> paths],
                    [name |-> "leastSpecificPath", path |-> leastSpecificPath(paths)])

\* nodeRootPath(schemaPaths)
CallNodeRootPath ==
    /\ phase = "idle"
    /\ \E sp \in SchemaPathLists :
           Returned([name |-> "nodeRootPath", schemaPaths |-> sp],
                    [name |-> "nodeRootPath", spec |-> nodeRootPath(sp)])

\* nodeChildPath(parentPath, schemaPaths); parentPath is read again after
\* the call
CallNodeChildPath ==
    /\ phase = "idle"
    /\ \E parentPath \in PathSpecs, sp \in SchemaPathLists :
           Returned([name |-> "nodeChildPath", parentPath |-> parentPath, schemaPaths |-> sp],
                    [name |-> "nodeChildPath", res |-> nodeChildPath(parentPath, sp),
                     parentPath |-> nodeChildPathParentAfter(parentPath, sp)])

\* nodeMapPath(list, parentPath)
CallNodeMapPath ==
    /\ phase = "idle"
    /\ \E list \in MapEntries, parentPath \in PathSpecs :
           Returned([name |-> "nodeMapPath", list |-> list, parentPath |-> parentPath],
                    [name |-> "nodeMapPath", res |-> nodeMapPath(list, parentPath)])

\* the NodeInfos handed to nodeValuePath: the root struct's own (no parent),
\* a field of the root struct (the root is never annotated), and a node
\* further down whose parent has a nil annotation, one without a pathSpec,
\* or one with a pathSpec; only a node below a list is a list entry
ValueNodes ==
    {[Parent |-> NilParent, parentIsRoot |-> FALSE, isKeyHelper |-> FALSE,
      FieldValue |-> EntryOf("foo", Nil, Nil, Nil)],
     [Parent |-> ParentNode(NoAnnotation), parentIsRoot |-> TRUE, isKeyHelper |-> FALSE,
      FieldValue |-> EntryOf("foo", Nil, Nil, Nil)]}
        \cup {[Parent |-> ParentNode(a), parentIsRoot |-> FALSE, isKeyHelper |-> k,
                FieldValue |-> l] :
                    a \in {NoAnnotation, OtherAnnotation}
                              \cup {Annotated(ps) : ps \in PathSpecs},
                    k \in BOOLEAN, l \in MapEntries}

\* nodeValuePath(ni, schemaPaths)
CallNodeValuePath ==
    /\ phase = "idle"
    /\ \E ni \in ValueNodes, sp \in SchemaPathLists :
           Returned([name |-> "nodeValuePath", ni |-> ni, schemaPaths |-> sp],
                    [name |-> "nodeValuePath",
                     res |-> nodeValuePath(ni.Parent, ni.isKeyHelper, ni.FieldValue, sp)])

\* p.Equal(o)
CallEqual ==
    /\ phase = "idle"
    /\ \E p \in PathSpecs, o \in PathSpecs :
           Returned([name |-> "Equal", p |-> p, o |-> o],
                    [name |-> "Equal", eq |-> Equal(p, o)])

\* findSetLeaves(s, opts...)
CallFindSetLeaves ==
    /\ phase = "idle"
    /\ \E s \in DiffTrees, o \in AllDiffOpts :
           Returned([name |-> "findSetLeaves", s |-> s, opts |-> o],
                    [name |-> "findSetLeaves", res |-> findSetLeaves(s, o)])

NextPaths ==
    \/ CallLeastSpecificPath
    \/ CallNodeRootPath
    \/ CallNodeChildPath
    \/ CallNodeMapPath
    \/ CallNodeValuePath
    \/ CallEqual
    \/ CallFindSetLeaves

SpecPaths == InitPaths /\ [][NextPaths]_vars

----------------------------------------------------------------------------
(* The validation scenario: an ordered map built with AppendNew, a key
   leaf changed behind its back, Get and ytypes.Validate *)

InitValidate ==
    /\ root = EmptyDevice
    /\ original = EmptyDevice
    /\ modified = EmptyDevice
    /\ opts = NoDiffOpts
    /\ uopts = UnmarshalOpts(FALSE, FALSE)
    /\ notif = NoNotif
    /\ call = NoCall
    /\ pre = EmptyDevice
    /\ first = EmptyDevice
    /\ err = FALSE
    /\ log = << >>
    /\ fn = NoFn
    /\ out = NoOut
    /\ om \in {OrderedMap(s, << >>) : s \in ListSchemas}
    /\ phase = "idle"

\* the call f on the ordered map returned r and left the map m
MapCall(f, r, m) ==
    /\ fn' = f
    /\ out' = r
    /\ om' = m
    /\ UNCHANGED <<root, original, modified, opts, uopts, notif, call, pre, first, err, log,
                   phase>>

\* om.AppendNew(k): the single-keyed list is appended to in AppendOrder
DoAppendNew ==
    /\ Len(om.entries) < MaxListLen
    /\ \E k \in LookupKeys(om.schema) :
          /\ om.schema = OrderedListSchema
                => (HasMapKey(om, k) \/ k = <<AppendOrder[Len(om.entries) + 1]>>)
          /\ MapCall([name |-> "AppendNew", k |-> k],
                     [name |-> "AppendNew", err |-> AppendNew(om, k).err],
                     AppendNew(om, k).om)

\* om.Get(k).Key = v: a key leaf of one entry of a consistent map changed
\* without the map knowing
DoSetKeyLeaf ==
    /\ \A i \in 1..Len(om.entries) : KeyLeavesMatch(om.schema, om.entries[i])
    /\ \E i \in 1..Len(om.entries) :
          \E c \in 1..Len(om.entries[i].k) : \E v \in KeyLeafValues(om.schema, c) :
              /\ v # om.entries[i].leaves[c]
              /\ MapCall([name |-> "SetKeyLeaf", k |-> om.entries[i].k, c |-> c, v |-> v],
                         [name |-> "SetKeyLeaf"],
                         SetKeyLeaf(om, i, c, v))

\* om.Get(k)
DoGet ==
    \E k \in LookupKeys(om.schema) :
        MapCall([name |-> "Get", k |-> k],
                [name |-> "Get", found |-> Get(om, k).found, entry |-> Get(om, k).entry],
                om)

\* ytypes.Validate(schema, om)
DoValidate ==
    /\ phase = "idle"
    /\ MapCall([name |-> "Validate", before |-> om],
               [name |-> "Validate", err |-> Validate(om.schema, om)],
               om)

NextValidate == DoAppendNew \/ DoSetKeyLeaf \/ DoGet \/ DoValidate

SpecValidate == InitValidate /\ [][NextValidate]_vars

----------------------------------------------------------------------------
(* The schema tree of ygen (ygen/schematree.go).  A Go string is the
   sequence of its characters, so that splitting and joining are computed *)

\* the string ".."
DotDot == <<".", ".">>

\* strings.ContainsRune(s, c)
ContainsRune(s, c) == \E i \in 1..Len(s) : s[i] = c

RECURSIVE SplitFrom(_, _, _, _, _)
\* strings.Split(s, sep) for a separator of one character, from the i-th
\* character on: parts are the pieces closed so far, buf the open one
SplitFrom(s, sep, i, parts, buf) ==
    IF i > Len(s) THEN Append(parts, buf)
    ELSE IF s[i] = sep THEN SplitFrom(s, sep, i + 1, Append(parts, buf), << >>)
    ELSE SplitFrom(s, sep, i + 1, parts, Append(buf, s[i]))

Split(s, sep) == SplitFrom(s, sep, 1, << >>, << >>)

\* a *yang.Entry: the names from its module down to itself, and whether it
\* is a directory (container or list) or a leaf or leaf-list
Entry(path, dir) == [nil |-> FALSE, path |-> path, dir |-> dir]
NilEntry == [nil |-> TRUE, path |-> << >>, dir |-> FALSE]

\* the entries of two modules m and n: m has container a with leaf x and
\* container b, b has leaf y, and m has the leaf l; n has its own container
\* a with leaf x, and the leaf k
YangEntries ==
    << Entry(<< <<"m">> >>, TRUE),
       Entry(<< <<"m">>, <<"a">> >>, TRUE),
       Entry(<< <<"m">>, <<"a">>, <<"x">> >>, FALSE),
       Entry(<< <<"m">>, <<"a">>, <<"b">> >>, TRUE),
       Entry(<< <<"m">>, <<"a">>, <<"b">>, <<"y">> >>, FALSE),
       Entry(<< <<"m">>, <<"l">> >>, FALSE),
       Entry(<< <<"n">> >>, TRUE),
       Entry(<< <<"n">>, <<"a">> >>, TRUE),
       Entry(<< <<"n">>, <<"a">>, <<"x">> >>, FALSE),
       Entry(<< <<"n">>, <<"k">> >>, FALSE) >>

\* strings of the form /name/name: yang.Entry.Path and util.SchemaTreePath
\* (no choice or case among the entries)
SlicePathToString(names) == Flatten([i \in 1..Len(names) |-> <<"/">> \o names[i]])
Path(e) == SlicePathToString(e.path)
SchemaTreePath(e) == SlicePathToString(e.path)

\* yang.Entry.IsDir
IsDir(e) == e.dir

\* util.Children: the entries directly below e
IsChild(ch, e) ==
    /\ Len(ch.path) = Len(e.path) + 1
    /\ SubSeq(ch.path, 1, Len(e.path)) = e.path
Children(e) == SelectSeq(YangEntries, LAMBDA ch : IsChild(ch, e))

\* a schemaTree: the set of <<path, entry>> it holds
EmptySchemaTree == {}

\* t.Add(path, e) of ctree.Tree (github.com/openconfig/gnmi), whose code
\* is not among the sources: the callers show only that it returns an error
\* or registers the entry.  On a path that holds no entry yet the entry is
\* registered.  On a path registered already the outcomes are both kept:
\* the error the comment of buildSchemaTree speaks of, and the entry taking
\* the place of the one registered.  (No entry of YangEntries is a leaf
\* where another path has a directory.)
Add(t, path, e) ==
    IF \E r \in t : r[1] = path
    THEN {[err |-> TRUE, t |-> t],
          [err |-> FALSE, t |-> {r \in t : r[1] # path} \cup {<<path, e>>}]}
    ELSE {[err |-> FALSE, t |-> t \cup {<<path, e>>}]}

\* s[n:] of a Go slice, n counted from 0
From(s, n) == SubSeq(s, n + 1, Len(s))

RECURSIVE schemaTreeChildrenAddFrom(_, _, _)
\* schemaTreeChildrenAdd over the children chs from the i-th on: the
\* outcomes it can have, one for every outcome of the calls of Add
schemaTreeChildrenAddFrom(t, chs, i) ==
    IF i > Len(chs) THEN {[err |-> FALSE, t |-> t]}
    ELSE UNION {IF r.err THEN {r} ELSE schemaTreeChildrenAddFrom(r.t, chs, i + 1) :
                  r \in IF ~IsDir(chs[i])
                        THEN Add(t, From(Split(Path(chs[i]), "/"), 2), chs[i])
                        ELSE schemaTreeChildrenAddFrom(t, Children(chs[i]), 1)}

\* schemaTreeChildrenAdd: the leaves below e added to t
schemaTreeChildrenAdd(t, e) == schemaTreeChildrenAddFrom(t, Children(e), 1)

RECURSIVE buildSchemaTreeFrom(_, _, _)
\* the loop of buildSchemaTree from the i-th entry on
buildSchemaTreeFrom(t, entries, i) ==
    IF i > Len(entries) THEN {[err |-> FALSE, t |-> t]}
    ELSE IF Len(Split(Path(entries[i]), "/")) # 3
    THEN buildSchemaTreeFrom(t, entries, i + 1)
    ELSE UNION {IF r.err THEN {[err |-> TRUE, t |-> EmptySchemaTree]}
                ELSE buildSchemaTreeFrom(r.t, entries, i + 1) :
                  r \in IF ~IsDir(entries[i])
                        THEN Add(t, << Split(Path(entries[i]), "/")[3] >>, entries[i])
                        ELSE schemaTreeChildrenAdd(t, entries[i])}

\* buildSchemaTree: the leaves of the module-root entries among entries, by
\* their path without the module; the outcomes it can have
buildSchemaTree(entries) == buildSchemaTreeFrom(EmptySchemaTree, entries, 1)

RECURSIVE splitXPATHPartsFrom(_, _, _, _, _)
\* the loop of splitXPATHParts from the i-th character on
splitXPATHPartsFrom(path, i, parts, buf, inKey) ==
    IF i > Len(path) THEN (IF Len(buf) # 0 THEN Append(parts, buf) ELSE parts)
    ELSE IF path[i] = "/" /\ ~inKey
    THEN splitXPATHPartsFrom(path, i + 1, Append(parts, buf), << >>, inKey)
    ELSE IF path[i] = "[" THEN splitXPATHPartsFrom(path, i + 1, parts, buf, TRUE)
    ELSE IF path[i] = "]" THEN splitXPATHPartsFrom(path, i + 1, parts, buf, FALSE)
    ELSE splitXPATHPartsFrom(path, i + 1, parts,
                             IF inKey THEN buf ELSE Append(buf, path[i]), inKey)

\* splitXPATHParts splitting at every /, brackets and keys kept
splitXPATHPartsSlashOnly(path) ==
    IF Len(path) = 0 THEN << >> ELSE Split(path, "/")

\* splitXPATHParts: the parts of an XPATH between the / outside of [ ]
splitXPATHParts(path) == splitXPATHPartsFrom(path, 1, << >>, << >>, FALSE)

RECURSIVE removeXPATHNamespacesFrom(_, _, _)
\* the loop of removeXPATHNamespaces from the i-th part on
removeXPATHNamespacesFrom(path, i, fixedParts) ==
    IF i > Len(path) THEN [err |-> FALSE, parts |-> fixedParts]
    ELSE IF ContainsRune(path[i], ":")
    THEN IF Len(Split(path[i], ":")) # 2 THEN [err |-> TRUE, parts |-> << >>]
         ELSE removeXPATHNamespacesFrom(path, i + 1,
                                        Append(fixedParts, Split(path[i], ":")[2]))
    ELSE removeXPATHNamespacesFrom(path, i + 1, Append(fixedParts, path[i]))

\* removeXPATHNamespaces: every part without its namespace prefix
removeXPATHNamespaces(path) == removeXPATHNamespacesFrom(path, 1, << >>)

\* the outcomes of fixSchemaTreePath: a path, an error, or the run-time
\* panic of parts[0] on a path without parts
FixedPath(parts) == [err |-> FALSE, panic |-> FALSE, parts |-> parts]
FixErr == [err |-> TRUE, panic |-> FALSE, parts |-> << >>]
FixPanic == [err |-> FALSE, panic |-> TRUE, parts |-> << >>]

RECURSIVE fixSchemaTreePathFrom(_, _, _, _)
\* the loop of fixSchemaTreePath over parts from the i-th on
fixSchemaTreePathFrom(parts, i, callerPath, remainingPath) ==
    IF i > Len(parts) THEN FixedPath(callerPath \o remainingPath)
    ELSE IF parts[i] = DotDot
    THEN IF Len(callerPath) = 0 THEN FixErr
         ELSE fixSchemaTreePathFrom(parts, i + 1,
                                    SubSeq(callerPath, 1, Len(callerPath) - 1),
                                    remainingPath)
    ELSE fixSchemaTreePathFrom(parts, i + 1, callerPath, Append(remainingPath, parts[i]))

\* what fixSchemaTreePath does with the parts of a path
fixSchemaTreeParts(parts, caller) ==
    IF Len(parts) = 0 THEN FixPanic
    ELSE IF parts[1] # DotDot
    THEN IF parts[1] = << >> THEN FixedPath(From(parts, 1)) ELSE FixErr
    ELSE IF caller.nil THEN FixErr
    ELSE IF Len(Split(SchemaTreePath(caller), "/")) < 2 THEN FixErr
    ELSE fixSchemaTreePathFrom(parts, 1, From(Split(SchemaTreePath(caller), "/"), 2), << >>)

\* fixSchemaTreePath: the path of a leafref as the schema tree holds it
fixSchemaTreePath(path, caller) ==
    Bind(removeXPATHNamespaces(splitXPATHParts(path)), LAMBDA r :
        IF r.err THEN FixErr ELSE fixSchemaTreeParts(r.parts, caller))

\* a *schemaTree: nil, or the tree
SchemaTreePtr(t) == [nil |-> FALSE, t |-> t]
NilSchemaTree == [nil |-> TRUE, t |-> EmptySchemaTree]

\* ctree.Tree.GetLeafValue: the entry registered at the path, nil if none
GetLeafValue(t, path) ==
    IF \E r \in t : r[1] = path THEN (CHOOSE r \in t : r[1] = path)[2] ELSE NilEntry

\* the outcomes of resolveLeafrefTarget: an entry, an error, or the panic
\* of fixSchemaTreePath
LeafrefTarget(e) == [err |-> FALSE, panic |-> FALSE, target |-> e]
TargetErr == [err |-> TRUE, panic |-> FALSE, target |-> NilEntry]
TargetPanic == [err |-> FALSE, panic |-> TRUE, target |-> NilEntry]

\* resolveLeafrefTarget: the entry the leafref path names, seen from
\* contextEntry
resolveLeafrefTarget(t, path, contextEntry) ==
    IF t.nil THEN TargetErr
    ELSE Bind(fixSchemaTreePath(path, contextEntry), LAMBDA fixedPath :
            IF fixedPath.panic THEN TargetPanic
            ELSE IF fixedPath.err THEN TargetErr
            ELSE IF GetLeafValue(t.t, fixedPath.parts).nil THEN TargetErr
            ELSE LeafrefTarget(GetLeafValue(t.t, fixedPath.parts)))

----------------------------------------------------------------------------
(* The schema tree scenario: one call of a function of ygen/schematree.go
   on arguments drawn from small sets *)

\* the parts leafref paths are made of: .., a name, a name with a
\* namespace, a name with a key holding a /, the empty part and a name with
\* two namespaces
Tokens ==
    { DotDot,
      <<"a">>,
      <<"p", ":", "x">>,
      <<"a", "[", "k", "=", "/", "]">>,
      << >>,
      <<"p", ":", "q", ":", "a">> }

\* up to MaxTokens parts
TokenLists == SeqsUpTo(Tokens, MaxTokens)

RECURSIVE JoinFrom(_, _)
\* strings.Join(tokens, "/") from the i-th token on
JoinFrom(tokens, i) ==
    IF i > Len(tokens) THEN << >>
    ELSE IF i = Len(tokens) THEN tokens[i]
    ELSE tokens[i] \o <<"/">> \o JoinFrom(tokens, i + 1)

\* the leafref paths: parts with a / between them
LeafrefPaths == {JoinFrom(tokens, 1) : tokens \in TokenLists}

\* the context entries: none, a module, a container, leaves
Callers ==
    {NilEntry, YangEntries[1], YangEntries[2], YangEntries[3], YangEntries[5]}

\* the entry lists handed to buildSchemaTree
EntryLists == SeqsUpTo(Range(YangEntries), MaxSchemaEntries)

\* splitXPATHParts(path)
CallSplitXPATHParts ==
    /\ phase = "idle"
    /\ \E path \in LeafrefPaths :
           Returned([name |-> "splitXPATHParts", path |-> path],
                    [name |-> "splitXPATHParts", parts |-> splitXPATHParts(path)])

\* removeXPATHNamespaces(path)
CallRemoveXPATHNamespaces ==
    /\ phase = "idle"
    /\ \E path \in TokenLists :
           Returned([name |-> "removeXPATHNamespaces", path |-> path],
                    [name |-> "removeXPATHNamespaces", res |-> removeXPATHNamespaces(path)])

\* fixSchemaTreePath(path, caller)
CallFixSchemaTreePath ==
    /\ phase = "idle"
    /\ \E path \in LeafrefPaths, caller \in Callers :
           Returned([name |-> "fixSchemaTreePath", path |-> path, caller |-> caller],
                    [name |-> "fixSchemaTreePath", res |-> fixSchemaTreePath(path, caller)])

\* buildSchemaTree(entries)
CallBuildSchemaTree ==
    /\ phase = "idle"
    /\ \E entries \in EntryLists :
           \E res \in buildSchemaTree(entries) :
               Returned([name |-> "buildSchemaTree", entries |-> entries],
                        [name |-> "buildSchemaTree", res |-> res])

\* the schema trees handed to resolveLeafrefTarget: none, and the tree of
\* container a and leaf l of module m
SchemaTrees ==
    {NilSchemaTree}
        \cup {SchemaTreePtr(r.t) : r \in buildSchemaTree(<<YangEntries[2], YangEntries[6]>>)}

\* t.resolveLeafrefTarget(path, contextEntry)
CallResolveLeafrefTarget ==
    /\ phase = "idle"
    /\ \E t \in SchemaTrees, path \in LeafrefPaths, contextEntry \in Callers :
           Returned([name |-> "resolveLeafrefTarget", t |-> t, path |-> path,
                     contextEntry |-> contextEntry],
                    [name |-> "resolveLeafrefTarget",
                     res |-> resolveLeafrefTarget(t, path, contextEntry)])

NextSchema ==
    \/ CallSplitXPATHParts
    \/ CallRemoveXPATHNamespaces
    \/ CallFixSchemaTreePath
    \/ CallBuildSchemaTree
    \/ CallResolveLeafrefTarget

SpecSchema == InitPaths /\ [][NextSchema]_vars

----------------------------------------------------------------------------
(* Reading a tree by address *)

\* every path of a "path" or "shadow-path" tag of the entry's fields
TagPaths ==
    UNION {Range(SchemaPaths(OrderedListFields[i]))
               \cup Range(ShadowSchemaPaths(OrderedListFields[i])) :
           i \in 1..Len(OrderedListFields)}

\* the addresses of the leaves of the list entries
LeafAddresses == {LeafPath(k, sp) : k \in Keys, sp \in TagPaths}

\* what every leaf address denotes, with and without shadow paths preferred
ResolvedLeaf ==
    [p \in LeafAddresses, preferShadowPath \in BOOLEAN |->
        ResolveDevice(p, preferShadowPath)]

\* the value of the leaf at absolute address p, Nil when no leaf is set
\* there (or the address denotes no leaf under the option)
ValueAt(t, p, preferShadowPath) ==
    LET tg == IF p \in LeafAddresses THEN ResolvedLeaf[p, preferShadowPath]
              ELSE ResolveDevice(p, preferShadowPath)
    IN  IF tg.kind = "leaf" /\ HasEntry(t, tg.k)
        THEN GetEntry(t, tg.k)[CHOOSE n \in tg.fields : TRUE]
        ELSE Nil

\* the addresses with a leaf set in a and none set in b
SetOnlyIn(a, b, preferShadowPath) ==
    {p \in LeafAddresses : ValueAt(a, p, preferShadowPath) # Nil
                           /\ ValueAt(b, p, preferShadowPath) = Nil}

\* the addresses whose leaf is set in mod and is not set to that value in orig
ChangedOrAdded(orig, mod, preferShadowPath) ==
    {p \in LeafAddresses : ValueAt(mod, p, preferShadowPath) # Nil
                           /\ ValueAt(orig, p, preferShadowPath)
                                 # ValueAt(mod, p, preferShadowPath)}

\* Diff has returned a notification for original and modified
Diffed == phase = "diffed" /\ ~notif.err /\ ~notif.panic

----------------------------------------------------------------------------
(* Diff: deletes, updates, IgnoreAdditions *)

\* C1: Diff(original, modified) lists an address in Delete if and only if a
\* leaf is set at that address in original and none is set there in
\* modified (every path of the leaf is listed; MapToSinglePath, which keeps
\* one path per leaf, is not given)
C1_DeleteIffSetOnlyInOriginal ==
    (Diffed /\ ~opts.MapToSinglePath)
        => Range(notif.n.Delete) = SetOnlyIn(original, modified, opts.PreferShadowPath)

\* C1 happens: a Diff that lists deletes while other leaves stay set
C1_Witness ==
    /\ Diffed /\ ~opts.MapToSinglePath
    /\ Len(notif.n.Delete) > 0
    /\ \E p \in LeafAddresses :
          /\ ValueAt(original, p, opts.PreferShadowPath) # Nil
          /\ ValueAt(modified, p, opts.PreferShadowPath) # Nil

\* C2: without IgnoreAdditions, Diff(original, modified) holds an update
\* (address, v) if and only if modified has v set at the address and
\* original has no value or another value there; the update carries
\* modified's value
C2_UpdateIffChangedOrAdded ==
    (Diffed /\ ~opts.MapToSinglePath /\ ~opts.IgnoreAdditions)
        => Range(notif.n.Update) =
              {Upd(p, StringVal(ValueAt(modified, p, opts.PreferShadowPath))) :
                  p \in ChangedOrAdded(original, modified, opts.PreferShadowPath)}

\* C2 happens: a Diff with an update for a changed leaf and one for an
\* added leaf
C2_Witness ==
    /\ Diffed /\ ~opts.MapToSinglePath /\ ~opts.IgnoreAdditions
    /\ \E i, j \in 1..Len(notif.n.Update) :
          /\ ValueAt(original, notif.n.Update[i].Path, opts.PreferShadowPath)
                \notin {Nil, notif.n.Update[i].Val.str}
          /\ ValueAt(original, notif.n.Update[j].Path, opts.PreferShadowPath) = Nil

\* findSetLeaves of every tree handed to Diff, under every option
LeavesTable == [t \in DiffTrees, o \in AllDiffOpts |-> findSetLeaves(t, o)]

\* the path string map of leaves with the range over them taken in
\* insertion order
StrPathMapOf(leaves) ==
    toStringPathMapFrom(leaves, [i \in 1..Len(leaves) |-> i], 1, EmptyStrPathMap)

\* a notification of Diff(original, modified) under the options of the call
\* without IgnoreAdditions: that of the two ranges taken in one order
PlainDiff ==
    LET o == DiffOpts(FALSE, opts.MapToSinglePath, opts.PreferShadowPath)
        origLeavesStr == StrPathMapOf(LeavesTable[original, o].out)
        modLeavesStr == StrPathMapOf(LeavesTable[modified, o].out)
    IN  DiffModified(origLeavesStr, modLeavesStr,
                     SetToSeq(DOMAIN modLeavesStr), 1,
                     DiffOriginal(origLeavesStr, modLeavesStr,
                                  SetToSeq(DOMAIN origLeavesStr), 1,
                                  EmptyNotification))

\* C10: with IgnoreAdditions Diff holds no update for an address set only in
\* modified; its deletes and its updates of addresses set in both trees are
\* those of the Diff without the option
C10_IgnoreAdditionsDropsOnlyAdditions ==
    (Diffed /\ opts.IgnoreAdditions)
        => LET plain == PlainDiff
           IN  /\ \A i \in 1..Len(notif.n.Update) :
                     ValueAt(original, notif.n.Update[i].Path,
                             opts.PreferShadowPath) # Nil
               /\ Range(notif.n.Delete) = Range(plain.Delete)
               /\ Len(notif.n.Delete) = Len(plain.Delete)
               /\ Range(notif.n.Update) =
                     {u \in Range(plain.Update) :
                         ValueAt(original, u.Path, opts.PreferShadowPath) # Nil}

\* C10 happens: a Diff with IgnoreAdditions of trees that differ by an
\* added leaf, a changed leaf and a deleted leaf
C10_Witness ==
    /\ Diffed /\ opts.IgnoreAdditions
    /\ SetOnlyIn(modified, original, opts.PreferShadowPath) # {}
    /\ Len(notif.n.Update) > 0
    /\ Len(notif.n.Delete) > 0

----------------------------------------------------------------------------
(* Diff and UnmarshalNotifications: the round trip *)

\* flatten: the address -> value map of a tree, or an error
FlatMap(t, o) ==
    LET leaves == findSetLeaves(t, o)
        m == StrPathMapOf(leaves.out)
    IN  [err |-> leaves.err,
         map |-> {<<str, m[str].val>> : str \in DOMAIN m}]

\* C3: applying Diff(original, modified) to original (deletes, then updates,
\* as UnmarshalNotifications does) gives a tree whose flattened map is the
\* flattened map of modified
C3_RoundTrip ==
    (phase = "applied" /\ opts = NoDiffOpts)
        => /\ ~err
           /\ ~FlatMap(root, opts).err
           /\ FlatMap(root, opts).map = FlatMap(modified, opts).map

----------------------------------------------------------------------------
(* What a request asks for, and what the log shows *)

\* one node operation a request asks for: the list it comes from, the
\* operation, the request prefix, the address as the request states it and
\* the value
AskedOp(step, op, prefix, path, val) ==
    [step |-> step, op |-> op, prefix |-> prefix, path |-> path, val |-> val]

\* the operations of a SetRequest in the order its lists state them: the
\* prefix, every delete, every replace (a delete and a set), every update
AskedOf(req) ==
    << AskedOp("prefix", "getOrCreateNode", req.Prefix, req.Prefix, NoVal) >>
    \o [i \in 1..Len(req.Delete) |->
           AskedOp("delete", "DeleteNode", req.Prefix, req.Delete[i], NoVal)]
    \o Flatten([i \in 1..Len(req.Replace) |->
           << AskedOp("replace", "DeleteNode", req.Prefix, req.Replace[i].Path, NoVal),
              AskedOp("replace", "SetNode", req.Prefix, req.Replace[i].Path,
                      req.Replace[i].Val) >>])
    \o [i \in 1..Len(req.Update) |->
           AskedOp("update", "SetNode", req.Prefix, req.Update[i].Path,
                   req.Update[i].Val)]

\* the operations of a notification: its deletes, the whole-subject delete
\* (the empty address) when it is atomic, its updates
AskedOfNotification(n) ==
    << AskedOp("prefix", "getOrCreateNode", n.Prefix, n.Prefix, NoVal) >>
    \o [i \in 1..Len(n.Delete) |->
           AskedOp("delete", "DeleteNode", n.Prefix, n.Delete[i], NoVal)]
    \o (IF n.Atomic
        THEN << AskedOp("atomic", "DeleteNode", n.Prefix, << >>, NoVal) >>
        ELSE << >>)
    \o [i \in 1..Len(n.Update) |->
           AskedOp("update", "SetNode", n.Prefix, n.Update[i].Path, n.Update[i].Val)]

\* the operations the last call asks for
Asked ==
    IF call.kind = "SetRequest" THEN AskedOf(call.req)
    ELSE Flatten([j \in 1..Len(call.ns) |-> AskedOfNotification(call.ns[j])])

\* the logged call l is the asked operation a, at its address as stated or
\* with the prefix joined
Follows(l, a) ==
    /\ l.op = a.op
    /\ l.val = a.val
    /\ IF a.step = "prefix" THEN l.path = a.path
       ELSE l.path \in {a.path, JoinPaths(a.prefix, a.path)}

\* the log is the asked operations up to its length, in their order
LogFollowsAsked ==
    /\ Len(log) <= Len(Asked)
    /\ \A i \in 1..Len(log) : Follows(log[i], Asked[i])

\* a call has returned
Called == phase \in {"once", "twice"}

\* the tree one logged call leaves
ReplayOne(t, l, o) ==
    CASE l.op = "getOrCreateNode" -> getOrCreateNode(t, l.path, o.PreferShadowPath).t
      [] l.op = "DeleteNode" -> DeleteNode(t, l.node, l.path, o.PreferShadowPath).t
      [] OTHER -> SetNode(t, l.node, l.path, l.val, o.PreferShadowPath,
                          o.IgnoreExtraFields).t

RECURSIVE Replay(_, _, _, _)
\* the tree the logged calls from the i-th on leave, one after the other
Replay(t, l, i, o) ==
    IF i > Len(l) THEN t ELSE Replay(ReplayOne(t, l[i], o), l, i + 1, o)

\* the last update of us at address p
LastUpdate(us, p) ==
    us[CHOOSE j \in 1..Len(us) :
           us[j].Path = p /\ \A m \in (j + 1)..Len(us) : us[m].Path # p]

\* the GoStruct a prefix denotes when it resolves: schema.Root or an entry
SubjectOf(prefix) ==
    IF prefix = << >> THEN Nil ELSE CHOOSE k \in Keys : prefix = EntryPath(k)

----------------------------------------------------------------------------
(* UnmarshalSetRequest: order of the three lists *)

\* the request of the mutation scenario: delete x, replace y, update z
ExampleRequest ==
    SetRequest(<< >>, <<PathX>>, <<Upd(PathY, StringVal("bar-val"))>>,
               <<Upd(PathZ, StringVal("foo-val"))>>)

\* the tree of the mutation scenario: x and y set, z unset
ExampleTree == [OrderedList |-> <<EntryOf("foo", "foo", "foo-val", "foo-val")>>]

\* C4: UnmarshalSetRequest makes its node operations in the order every
\* delete, every replace, every update, each list in its order; an address
\* in both the delete and the update list ends at the value of its last
\* update; delete x, replace y, update z on x = 1, y = 2, z unset leaves x
\* unset, y replaced and z set
C4_DeletesReplacesUpdatesInOrder ==
    (Called /\ call.kind = "SetRequest")
        => /\ LogFollowsAsked
           /\ ~err => Len(log) = Len(Asked)
           /\ ~err =>
                 \A i \in 1..Len(call.req.Delete), j \in 1..Len(call.req.Update) :
                    LET p == call.req.Delete[i]
                        a == JoinPaths(call.req.Prefix, p)
                    IN  (/\ call.req.Update[j].Path = p
                         /\ ResolveDevice(a, uopts.PreferShadowPath).kind = "leaf")
                            => ValueAt(root, a, uopts.PreferShadowPath)
                                  = LastUpdate(call.req.Update, p).Val.str
           /\ (call.req = ExampleRequest /\ pre = ExampleTree
                  /\ ~uopts.PreferShadowPath)
                 => /\ ~err
                    /\ ValueAt(root, PathX, FALSE) = Nil
                    /\ ValueAt(root, PathY, FALSE) = "bar-val"
                    /\ ValueAt(root, PathZ, FALSE) = "foo-val"

\* C4 happens: a request with a delete, a replace and an update that
\* succeeds and names the address of a leaf in its deletes and its updates
C4_Witness ==
    /\ Called /\ call.kind = "SetRequest" /\ ~err
    /\ Len(call.req.Replace) > 0
    /\ \E i \in 1..Len(call.req.Delete), j \in 1..Len(call.req.Update) :
          /\ call.req.Update[j].Path = call.req.Delete[i]
          /\ ValueAt(pre, JoinPaths(call.req.Prefix, call.req.Delete[i]),
                     uopts.PreferShadowPath) # Nil
          /\ ValueAt(root, JoinPaths(call.req.Prefix, call.req.Delete[i]),
                     uopts.PreferShadowPath)
                \notin {Nil, ValueAt(pre, JoinPaths(call.req.Prefix, call.req.Delete[i]),
                                     uopts.PreferShadowPath)}

----------------------------------------------------------------------------
(* Errors: the first one ends the call, nothing is rolled back *)

\* C5: a call stops at the first node operation that fails and returns its
\* error; the operations before it stay applied and none after it is made,
\* in a SetRequest and across the notifications of UnmarshalNotifications
C5_StopsAtFirstErrorNoRollback ==
    Called
        => /\ LogFollowsAsked
           /\ \A i \in 1..Len(log) :
                 (log[i].err /\ log[i].op # "getOrCreateNode") => i = Len(log)
           /\ err <=> (/\ Len(log) > 0
                       /\ log[Len(log)].err
                       /\ log[Len(log)].op # "getOrCreateNode")
           /\ ~err => Len(log) = Len(Asked)
           /\ root = Replay(pre, log, 1, uopts)

\* C5 happens: a call that fails after operations that changed the tree,
\* with asked operations left
C5_Witness ==
    /\ Called /\ err
    /\ Len(log) < Len(Asked)
    /\ root # pre
    /\ \E i \in 1..(Len(log) - 1) : log[i].op # "getOrCreateNode"

----------------------------------------------------------------------------
(* Replace: delete, then set *)

\* the value a JSON document sets in field f of an entry, Nil when it sets
\* none
DocValue(leaves, f, preferShadowPath) ==
    IF \E l \in leaves : l[1] \in Range(EffectivePaths(FieldOf(f), preferShadowPath))
    THEN (CHOOSE l \in leaves :
              l[1] \in Range(EffectivePaths(FieldOf(f), preferShadowPath)))[2]
    ELSE Nil

\* the tree holds at absolute address a exactly what the value sets: a
\* scalar at a leaf, the leaves of a document in an entry (the key leaf,
\* which InitMissingElements populates, aside)
HoldsExactly(t, a, val, preferShadowPath) ==
    LET tg == ResolveDevice(a, preferShadowPath)
    IN  CASE tg.kind = "leaf" -> ValueAt(t, a, preferShadowPath) = val.str
          [] tg.kind = "entry" ->
                /\ HasEntry(t, tg.k)
                /\ \A f \in FieldNames \ {"Key"} :
                      GetEntry(t, tg.k)[f] = DocValue(val.json, f, preferShadowPath)
          [] OTHER -> TRUE

\* C6: the set of a replace comes right after a DeleteNode on the same
\* GoStruct and address that succeeded; a replace whose delete fails sets
\* nothing; after a successful replace the address holds exactly what the
\* value sets
C6_ReplaceDeletesThenSets ==
    (Called /\ call.kind = "SetRequest")
        => /\ LogFollowsAsked
           /\ \A i \in 1..Len(log) :
                 (Asked[i].step = "replace" /\ log[i].op = "SetNode")
                    => /\ log[i - 1].op = "DeleteNode"
                       /\ ~log[i - 1].err
                       /\ log[i - 1].node = log[i].node
                       /\ log[i - 1].path = log[i].path
           /\ \A i \in 1..Len(log) :
                 (Asked[i].step = "replace" /\ log[i].op = "DeleteNode" /\ log[i].err)
                    => i = Len(log)
           /\ (~err /\ Len(call.req.Replace) > 0 /\ Len(call.req.Update) = 0)
                 => LET r == call.req.Replace[Len(call.req.Replace)]
                    IN  HoldsExactly(root, JoinPaths(call.req.Prefix, r.Path), r.Val,
                                     uopts.PreferShadowPath)

\* C6 happens: a successful replace of an entry by a document, the entry
\* holding before a leaf the document does not set
C6_Witness ==
    /\ Called /\ call.kind = "SetRequest" /\ ~err
    /\ Len(call.req.Replace) > 0 /\ Len(call.req.Update) = 0
    /\ LET r == call.req.Replace[Len(call.req.Replace)]
       IN  /\ r.Val.kind = "json_ietf_val"
           /\ JoinPaths(call.req.Prefix, r.Path) = EntryPath("foo")
    /\ ValueAt(pre, PathY, uopts.PreferShadowPath) # Nil
    /\ ValueAt(root, PathY, uopts.PreferShadowPath) = Nil
    /\ ValueAt(root, PathX, uopts.PreferShadowPath) = "bar-val"

----------------------------------------------------------------------------
(* The request prefix *)

\* C7: when getOrCreateNode of the prefix succeeds every operation is made
\* on the node at the prefix, at its address as stated; when it fails that
\* is no error of the request, and every operation is made on schema.Root
\* at the prefix joined with its address
C7_PrefixResolvedOrJoined ==
    (Called /\ call.kind = "SetRequest")
        => /\ LogFollowsAsked
           /\ Len(log) > 0
           /\ \A i \in 2..Len(log) :
                 IF ~log[1].err
                 THEN /\ log[i].node = SubjectOf(call.req.Prefix)
                      /\ log[i].path = Asked[i].path
                 ELSE /\ log[i].node = Nil
                      /\ log[i].path = JoinPaths(call.req.Prefix, Asked[i].path)
           /\ err => (Len(log) > 1 /\ log[Len(log)].err)
           /\ ~err => Len(log) = Len(Asked)

\* C7 happens: a request whose prefix getOrCreateNode fails on and whose
\* delete, replace and update are applied with the prefix joined
C7_Witness ==
    /\ Called /\ call.kind = "SetRequest" /\ ~err
    /\ log[1].err
    /\ Len(call.req.Prefix) > 0
    /\ Len(call.req.Delete) > 0 /\ Len(call.req.Replace) > 0
    /\ Len(call.req.Update) > 0
    /\ root # pre

----------------------------------------------------------------------------
(* Atomic notifications *)

\* the addresses below the subject of a prefix
Below(prefix) ==
    {p \in LeafAddresses :
        ResolveDevice(prefix, FALSE).kind = "entry" => IsPrefix(prefix, p)}

\* the key leaf addresses of the entry address p lies in
IsKeyLeaf(p) == \E k \in Keys : p \in {LeafPath(k, <<"key">>),
                                      LeafPath(k, <<"config", "key">>),
                                      LeafPath(k, <<"state", "key">>)}

\* C8: for an atomic notification UnmarshalNotifications deletes the whole
\* subject (the empty address) after the listed deletes and before the
\* updates, and the subject then holds only what the updates set (and the
\* key leaf of an entry they created); without the flag no such delete is
\* made
C8_AtomicDeletesWholeSubject ==
    (Called /\ call.kind = "Notifications")
        => /\ LogFollowsAsked
           /\ ~err => Len(log) = Len(Asked)
           /\ \A i \in 1..Len(log) :
                 (log[i].op = "DeleteNode"
                     /\ log[i].path \in {<< >>, Asked[i].prefix})
                    <=> Asked[i].step = "atomic"
           /\ (~err /\ Len(call.ns) > 0 /\ call.ns[Len(call.ns)].Atomic)
                 => LET n == call.ns[Len(call.ns)]
                    IN  \A p \in Below(n.Prefix) :
                           ValueAt(root, p, uopts.PreferShadowPath) # Nil
                              => \/ \E j \in 1..Len(n.Update) :
                                       /\ JoinPaths(n.Prefix, n.Update[j].Path) = p
                                       /\ n.Update[j].Val.str
                                             = ValueAt(root, p, uopts.PreferShadowPath)
                                 \/ /\ IsKeyLeaf(p)
                                    /\ \E j \in 1..Len(n.Update) :
                                          IsPrefix(SubSeq(p, 1, 2),
                                                   JoinPaths(n.Prefix, n.Update[j].Path))

\* C8 happens: an atomic notification with a listed delete and an update
\* applied on a subject that held a leaf neither names
C8_Witness ==
    /\ Called /\ call.kind = "Notifications" /\ ~err
    /\ Len(call.ns) > 0
    /\ LET n == call.ns[Len(call.ns)]
       IN  /\ n.Atomic
           /\ Len(n.Delete) > 0 /\ Len(n.Update) > 0
           /\ \E p \in Below(n.Prefix) :
                 /\ ValueAt(pre, p, uopts.PreferShadowPath) # Nil
                 /\ ValueAt(root, p, uopts.PreferShadowPath) = Nil
                 /\ \A i \in 1..Len(n.Delete) : JoinPaths(n.Prefix, n.Delete[i]) # p

----------------------------------------------------------------------------
(* Idempotence *)

\* C9: a request of replaces and updates only that applies without error
\* applies without error a second time and leaves the tree the first
\* application left (the entries of the ordered list in the same order)
C9_ReplaceUpdateIdempotent ==
    (phase = "twice" /\ call.kind = "SetRequest" /\ Len(call.req.Delete) = 0)
        => /\ ~err
           /\ root = first

----------------------------------------------------------------------------
(* Shadow paths when unmarshalling *)

\* the absolute address of a logged node operation
AddressOf(l) == IF l.node = Nil THEN l.path ELSE EntryPath(l.node) \o l.path

\* the schema paths only the "path" tag of field f holds, and those only
\* its "shadow-path" tag holds
PrimaryOnly(f) == Range(SchemaPaths(f)) \ Range(ShadowSchemaPaths(f))
ShadowOnly(f) == Range(ShadowSchemaPaths(f)) \ Range(SchemaPaths(f))

\* field n of the entry under k, Nil when the tree holds no such entry
FieldAt(t, k, n) == IF HasEntry(t, k) THEN GetEntry(t, k)[n] ELSE Nil

\* the last node operation of the call sets a scalar at the primary
\* (shadow = FALSE) or the shadow (shadow = TRUE) path of field n of entry k
LastSetsAt(k, n, shadow) ==
    /\ Called /\ call.kind = "SetRequest" /\ Len(log) > 1
    /\ log[Len(log)].op = "SetNode"
    /\ log[Len(log)].val.kind = "string_val"
    /\ Len(ShadowSchemaPaths(FieldOf(n))) > 0
    /\ \E sp \in (IF shadow THEN ShadowOnly(FieldOf(n)) ELSE PrimaryOnly(FieldOf(n))) :
          AddressOf(log[Len(log)]) = LeafPath(k, sp)

\* the tree before the last node operation of the call
BeforeLast == Replay(pre, SubSeq(log, 1, Len(log) - 1), 1, uopts)

\* C11: a scalar set at the primary path of a field with a shadow path
\* populates the field when PreferShadowPath is off and is ignored when it
\* is on; set at the shadow path it populates the field when the option is
\* on and is ignored when it is off; none of the four is an error
C11_ShadowPathSelection ==
    \A k \in Keys, n \in FieldNames, shadow \in BOOLEAN :
        LastSetsAt(k, n, shadow)
            => /\ ~err
               /\ FieldAt(root, k, n)
                     = IF shadow = uopts.PreferShadowPath
                       THEN log[Len(log)].val.str
                       ELSE FieldAt(BeforeLast, k, n)

\* C11 happens: with PreferShadowPath a set at the shadow path changes the
\* value of the field
C11_Witness ==
    \E k \in Keys, n \in FieldNames :
        /\ LastSetsAt(k, n, TRUE)
        /\ uopts.PreferShadowPath
        /\ FieldAt(BeforeLast, k, n) \notin {Nil, log[Len(log)].val.str}
        /\ FieldAt(root, k, n) = log[Len(log)].val.str

----------------------------------------------------------------------------
(* MapToSinglePath *)

\* the index of the first of the shortest paths of a non-empty list
FirstShortest(paths) ==
    CHOOSE j \in 1..Len(paths) :
        /\ \A i \in 1..Len(paths) : Len(paths[j]) <= Len(paths[i])
        /\ \A i \in 1..(j - 1) : Len(paths[i]) > Len(paths[j])

\* the (path, value) pairs of the leaves set in tree s, each leaf at the
\* first of the shortest paths of the struct tag in use
SinglePathLeaves(s, preferShadowPath) ==
    {[path |-> EntryPath(s.OrderedList[i].Key)
                  \o schemaPathTogNMIPath(
                        LET sp == EffectivePaths(FieldOf(n), preferShadowPath)
                        IN  sp[FirstShortest(sp)]),
      val |-> s.OrderedList[i][n]] :
        i \in {x \in 1..Len(s.OrderedList) : s.OrderedList[x].Key # Nil},
        n \in FieldNames}

\* C12: leastSpecificPath returns the declared path with the fewest
\* elements, the first declared among those of that length; under
\* MapToSinglePath findSetLeaves maps every set leaf to that one path only
C12_SinglePathIsFirstShortest ==
    /\ (phase = "returned" /\ fn.name = "leastSpecificPath" /\ Len(fn.paths) > 0)
          => out.path = fn.paths[FirstShortest(fn.paths)]
    /\ (phase = "returned" /\ fn.name = "findSetLeaves" /\ fn.opts.MapToSinglePath
           /\ ~out.res.err)
          => /\ \A i \in 1..Len(out.res.out) : Len(out.res.out[i].spec.gNMIPaths) = 1
             /\ {[path |-> out.res.out[i].spec.gNMIPaths[1], val |-> out.res.out[i].val] :
                     i \in 1..Len(out.res.out)}
                   = {r \in SinglePathLeaves(fn.s, fn.opts.PreferShadowPath) : r.val # Nil}

\* C12 happens: a tag whose first path is longer than its shortest and
\* that declares two different shortest paths
C12_Witness ==
    /\ phase = "returned" /\ fn.name = "leastSpecificPath"
    /\ Len(fn.paths) = 3
    /\ Len(fn.paths[1]) > Len(fn.paths[2])
    /\ Len(fn.paths[2]) = Len(fn.paths[3])
    /\ fn.paths[2] # fn.paths[3]
    /\ out.path = fn.paths[2]

----------------------------------------------------------------------------
(* Validation of ordered maps *)

\* the last call was ytypes.Validate on the ordered map of schema s
Validated(s) == fn.name = "Validate" /\ om.schema = s

\* every entry of the map carries the key it is stored under, and no key
\* is stored twice
WellKeyed(m) ==
    /\ \A i \in 1..Len(m.entries) : m.entries[i].leaves = m.entries[i].k
    /\ \A i, j \in 1..Len(m.entries) : m.entries[i].k = m.entries[j].k => i = j

\* C13: an ordered-list (max-elements 5) of 5 entries with distinct keys
\* validates without error, one of 6 fails validation, and Validate leaves
\* the list as it was
C13_CardinalityBoundsInclusive ==
    (Validated(OrderedListSchema) /\ WellKeyed(om))
        => /\ Len(om.entries) = MaxElements => ~out.err
           /\ Len(om.entries) = MaxElements + 1 => out.err
           /\ om = fn.before

\* C13 happens: the sixth distinct key was appended and the list validated
C13_Witness ==
    /\ Validated(OrderedListSchema) /\ WellKeyed(om)
    /\ Len(om.entries) = MaxElements + 1
    /\ out.err

\* the entries whose key leaves are not the key they are stored under: a
\* leaf unset, or different in some component
Mismatched(m) ==
    {i \in 1..Len(m.entries) :
        \E c \in 1..Len(m.entries[i].k) :
            \/ m.entries[i].leaves[c] = NilLeaf(m.schema, c)
            \/ m.entries[i].leaves[c] # m.entries[i].k[c]}

\* C14: Validate fails when a key leaf of some entry is unset or differs
\* from the key the entry is stored under, in any one component of a
\* composite key; Get finds an entry under the key it is stored under and
\* not under the key its changed leaves spell
C14_KeyMismatchFailsValidation ==
    /\ (fn.name = "Validate" /\ Mismatched(om) # {}) => out.err
    /\ fn.name = "Get"
          => /\ out.found <=> \E i \in 1..Len(om.entries) : om.entries[i].k = fn.k
             /\ out.found => out.entry.k = fn.k
    /\ \A i \in Mismatched(om) :
          /\ Get(om, om.entries[i].k).found
          /\ Get(om, om.entries[i].k).entry = om.entries[i]
          /\ (om.entries[i].leaves \in LookupKeys(om.schema)
                 /\ \A j \in 1..Len(om.entries) : om.entries[j].k # om.entries[i].leaves)
                => ~Get(om, om.entries[i].leaves).found

\* C14 happens: the entry stored under {foo, 42} has its key2 leaf at 43,
\* no entry is stored under {foo, 43}, and the list was validated
C14_Witness ==
    /\ fn.name = "Validate" /\ om.schema = OrderedMultikeyedListSchema
    /\ out.err
    /\ \E i \in 1..Len(om.entries) :
          /\ om.entries[i].k = <<"foo", 42>>
          /\ om.entries[i].leaves = <<"foo", 43>>
    /\ Get(om, <<"foo", 42>>).found
    /\ ~Get(om, <<"foo", 43>>).found

----------------------------------------------------------------------------
(* pathSpec.Equal *)

\* the addresses of a pathSpec, as a set
Addresses(vp) == Range(vp.gNMIPaths)

\* C15: Equal(p, o) is true exactly when p and o hold the same addresses,
\* in whatever order: every address of p is in o and every address of o in p
C15_EqualIsSetEquality ==
    (phase = "returned" /\ fn.name = "Equal" /\ ~fn.p.nil /\ ~fn.o.nil)
        => (out.eq <=> Addresses(fn.p) = Addresses(fn.o))

----------------------------------------------------------------------------
(* nodeMapPath: the address of a list entry *)

\* nodeMapPath was called on an entry with its key and a parent with paths
MapPathCalled ==
    /\ phase = "returned" /\ fn.name = "nodeMapPath"
    /\ ~fn.parentPath.nil /\ ~fn.parentPath.nilPaths

\* C16 as stated: every address of a list entry is the address of the list
\* field with one element appended that carries the list name and the keys,
\* so it is one element longer; as many addresses as the list field has; an
\* error when the entry has no key mapping
C16_EntryAddressOneElementLonger ==
    MapPathCalled
        => IF fn.list.Key = Nil THEN out.res.err
           ELSE /\ ~out.res.err
                /\ Len(out.res.spec.gNMIPaths) = Len(fn.parentPath.gNMIPaths)
                /\ \A i \in 1..Len(fn.parentPath.gNMIPaths) :
                      LET p == fn.parentPath.gNMIPaths[i]
                          e == out.res.spec.gNMIPaths[i]
                      IN  /\ Len(e) = Len(p) + 1
                          /\ SubSeq(e, 1, Len(p)) = p
                          /\ e[Len(e)].key = {<<"key", fn.list.Key>>}

\* C16 amended: every address of a list entry is the address of the list
\* field, whose last element names the list, with the entry's keys set on
\* that last element, so it has as many elements; as many addresses as the
\* list field has; an error when the entry has no key mapping or the list
\* field has no pathSpec
C16_EntryAddressKeysOnLastElement ==
    (phase = "returned" /\ fn.name = "nodeMapPath")
        => IF fn.list.Key = Nil \/ fn.parentPath.nil \/ fn.parentPath.nilPaths
           THEN out.res.err
           ELSE /\ ~out.res.err
                /\ Len(out.res.spec.gNMIPaths) = Len(fn.parentPath.gNMIPaths)
                /\ \A i \in 1..Len(fn.parentPath.gNMIPaths) :
                      LET p == fn.parentPath.gNMIPaths[i]
                          e == out.res.spec.gNMIPaths[i]
                      IN  /\ Len(e) = Len(p)
                          /\ SubSeq(e, 1, Len(p) - 1) = SubSeq(p, 1, Len(p) - 1)
                          /\ e[Len(e)].name = p[Len(p)].name
                          /\ e[Len(e)].key = {<<"key", fn.list.Key>>}

\* C16 happens: the address of entry foo from a list field of two paths
C16_Witness ==
    /\ MapPathCalled
    /\ fn.list.Key = "foo"
    /\ Len(fn.parentPath.gNMIPaths) = 2
    /\ fn.parentPath.gNMIPaths[1] # fn.parentPath.gNMIPaths[2]
    /\ ~out.res.err
    /\ \A i \in 1..2 : out.res.spec.gNMIPaths[i][Len(fn.parentPath.gNMIPaths[i])].key
                          = {<<"key", "foo">>}

----------------------------------------------------------------------------
(* nodeChildPath and nodeRootPath *)

\* C17: for a parent of m addresses and a child of n declared paths
\* nodeChildPath returns m * n addresses, each one address of the parent
\* followed by one declared path, and leaves the parent's pathSpec as it
\* was; nodeRootPath returns one address per declared path
C17_ChildPathIsCartesianProduct ==
    /\ (phase = "returned" /\ fn.name = "nodeChildPath"
           /\ ~fn.parentPath.nil /\ ~fn.parentPath.nilPaths)
          => LET m == Len(fn.parentPath.gNMIPaths)
                 n == Len(fn.schemaPaths)
                 g == out.res.spec.gNMIPaths
             IN  /\ ~out.res.err
                 /\ Len(g) = m * n
                 /\ \A i \in 1..m, j \in 1..n :
                       g[(i - 1) * n + j]
                          = fn.parentPath.gNMIPaths[i]
                               \o [x \in 1..Len(fn.schemaPaths[j]) |->
                                      Elem(fn.schemaPaths[j][x], {})]
                 /\ out.parentPath = fn.parentPath
    /\ (phase = "returned" /\ fn.name = "nodeRootPath")
          => /\ Len(out.spec.gNMIPaths) = Len(fn.schemaPaths)
             /\ \A j \in 1..Len(fn.schemaPaths) :
                   out.spec.gNMIPaths[j]
                      = [x \in 1..Len(fn.schemaPaths[j]) |-> Elem(fn.schemaPaths[j][x], {})]

\* C17 happens: a parent of two addresses and a child of two declared
\* paths give four different addresses
C17_Witness ==
    /\ phase = "returned" /\ fn.name = "nodeChildPath"
    /\ ~fn.parentPath.nil
    /\ Len(fn.parentPath.gNMIPaths) = 2 /\ Len(fn.schemaPaths) = 2
    /\ ~out.res.err
    /\ Cardinality(Range(out.res.spec.gNMIPaths)) = 4

----------------------------------------------------------------------------
(* Leaves of several addresses in Diff *)

\* the set leaves of t as findSetLeaves records them under the options of
\* the Diff call
LeavesOf(t) == LeavesTable[t, opts].out

\* the keys of the path string map m that belong to the leaf l
EntriesOf(m, l) == {x \in DOMAIN m : m[x].path \in Range(l.spec.gNMIPaths)}

\* the positions of notif's Delete and Update that belong to the leaf l
DeletesOf(l) ==
    {x \in 1..Len(notif.n.Delete) : notif.n.Delete[x] \in Range(l.spec.gNMIPaths)}
UpdatesOf(l) ==
    {x \in 1..Len(notif.n.Update) : notif.n.Update[x].Path \in Range(l.spec.gNMIPaths)}

\* the leaf l of original is not among the leaves ml of modified; it is
\* among them with another value
RemovedLeaf(l, ml) == \A x \in 1..Len(ml) : ml[x].spec # l.spec
ChangedLeaf(l, ml) == \E x \in 1..Len(ml) : ml[x].spec = l.spec /\ ml[x].val # l.val

\* C18 as stated: a set leaf has one entry in the path string map of Diff
\* whatever the number of its addresses, and its removal or change gives one
\* delete or one update
C18_OneEntryPerLeaf ==
    Diffed =>
        LET ol == LeavesOf(original)
            ml == LeavesOf(modified)
            strPathMap == StrPathMapOf(ol)
        IN  \A l \in Range(ol) :
                /\ Cardinality(EntriesOf(strPathMap, l)) = 1
                /\ RemovedLeaf(l, ml) => Cardinality(DeletesOf(l)) = 1
                /\ ChangedLeaf(l, ml) => Cardinality(UpdatesOf(l)) = 1

\* C18: findSetLeaves records a set leaf once, with all its addresses; the
\* path string map of Diff has one entry per address of the leaf, and the
\* removal or change of the leaf gives one delete or one update per address
\* (a single one under MapToSinglePath, where the leaf has one address);
\* the path string map of a tree is the same for every order of the range
\* over its leaves
C18_OneEntryPerAddress ==
    /\ phase = "start" =>
           \A o \in AllDiffOpts :
               toStringPathMap(LeavesTable[original, o].out)
                   = {StrPathMapOf(LeavesTable[original, o].out)}
    /\ Diffed =>
        LET ol == LeavesOf(original)
            ml == LeavesOf(modified)
            strPathMap == StrPathMapOf(ol)
        IN  /\ \A i, j \in 1..Len(ol) :
                  i # j => Range(ol[i].spec.gNMIPaths) \cap Range(ol[j].spec.gNMIPaths) = {}
            /\ \A l \in Range(ol) :
                  /\ Cardinality(Range(l.spec.gNMIPaths)) = Len(l.spec.gNMIPaths)
                  /\ opts.MapToSinglePath => Len(l.spec.gNMIPaths) = 1
                  /\ Cardinality(EntriesOf(strPathMap, l)) = Len(l.spec.gNMIPaths)
                  /\ RemovedLeaf(l, ml) =>
                        /\ Cardinality(DeletesOf(l)) = Len(l.spec.gNMIPaths)
                        /\ UpdatesOf(l) = {}
                  /\ ChangedLeaf(l, ml) =>
                        /\ Cardinality(UpdatesOf(l)) = Len(l.spec.gNMIPaths)
                        /\ DeletesOf(l) = {}

\* C18 happens: a leaf of two addresses is removed and both addresses are
\* deleted, while another leaf is changed and updated
C18_Witness ==
    /\ Diffed
    /\ LET ol == LeavesOf(original)
           ml == LeavesOf(modified)
       IN  \E l, c \in Range(ol) :
              /\ Len(l.spec.gNMIPaths) = 2
              /\ RemovedLeaf(l, ml)
              /\ Cardinality(DeletesOf(l)) = 2
              /\ ChangedLeaf(c, ml)
              /\ UpdatesOf(c) # {}

----------------------------------------------------------------------------
(* fixSchemaTreePath: relative leafref paths *)

RECURSIVE LeadingDotDots(_)
\* the number of .. parts parts begins with
LeadingDotDots(parts) ==
    IF Len(parts) = 0 \/ Head(parts) # DotDot THEN 0
    ELSE 1 + LeadingDotDots(Tail(parts))

\* the parts of the path fixSchemaTreePath was called with, without their
\* namespaces
CalledParts == removeXPATHNamespaces(splitXPATHParts(fn.path))

\* the names of the context entry below its module
CallerSegments == SubSeq(fn.caller.path, 2, Len(fn.caller.path))

\* C19: fixSchemaTreePath on a relative path of k leading .. parts, from a
\* context entry of n names below its module: for k <= n the context's
\* names without the last k, then the parts after the leading .. as they
\* are; an error for k > n, for a module or a nil context; an error for a
\* path whose first part is neither empty nor ..
C19_RelativePathDropsLeadingDotDots ==
    (phase = "returned" /\ fn.name = "fixSchemaTreePath"
        /\ ~CalledParts.err /\ Len(CalledParts.parts) > 0)
    => LET parts == CalledParts.parts
           k == LeadingDotDots(parts)
           n == Len(CallerSegments)
       IN  /\ parts[1] \notin {<< >>, DotDot} => out.res.err
           /\ parts[1] = DotDot =>
                 IF fn.caller.nil \/ n = 0 \/ k > n THEN out.res.err
                 ELSE /\ ~out.res.err
                      /\ out.res.parts = SubSeq(CallerSegments, 1, n - k)
                                            \o SubSeq(parts, k + 1, Len(parts))

----------------------------------------------------------------------------
(* buildSchemaTree: duplicate paths *)

\* the leaves and leaf-lists at or below the entry e
LeavesBelow(e) ==
    {l \in Range(YangEntries) :
        /\ ~l.dir
        /\ Len(l.path) >= Len(e.path)
        /\ SubSeq(l.path, 1, Len(e.path)) = e.path}

\* what a call of buildSchemaTree has to register: every leaf at or below
\* an entry of the list that stands directly below its module, once per
\* occurrence of that entry
Registrations(entries) ==
    {r \in (1..Len(entries)) \X Range(YangEntries) :
        /\ Len(entries[r[1]].path) = 2
        /\ r[2] \in LeavesBelow(entries[r[1]])}

\* two registrations of one path
Duplicated(entries) ==
    \E r, q \in Registrations(entries) : r # q /\ Tail(r[2].path) = Tail(q[2].path)

\* C20, as far as the sources settle it: buildSchemaTree returns an error
\* only when a path is registered twice, and then no tree; a tree it returns
\* holds the paths, without the module, of the leaves and leaf-lists at or
\* below the module-root entries of the list, each path once and with an
\* entry registered at it; without a duplicate it returns that tree.
\* Whether a path registered twice is an error is the behaviour of
\* ctree.Tree.Add, which the sources do not hold.
C20_ErrorOnlyOnDuplicate ==
    (phase = "returned" /\ fn.name = "buildSchemaTree")
    => LET asked == {<<Tail(r[2].path), r[2]>> : r \in Registrations(fn.entries)}
       IN  /\ out.res.err => Duplicated(fn.entries) /\ out.res.t = EmptySchemaTree
           /\ ~out.res.err =>
                 /\ out.res.t \subseteq asked
                 /\ {r[1] : r \in out.res.t} = {r[1] : r \in asked}
                 /\ \A r, q \in out.res.t : r[1] = q[1] => r = q
           /\ ~Duplicated(fn.entries) => ~out.res.err /\ out.res.t = asked

\* C20: a call without a duplicate: an entry that is skipped, a container
\* and a top-level leaf give a tree with a leaf two levels below the
\* container
C20_BuiltWithoutDuplicate ==
    /\ phase = "returned" /\ fn.name = "buildSchemaTree"
    /\ ~Duplicated(fn.entries)
    /\ ~out.res.err
    /\ \E i \in 1..Len(fn.entries) : Len(fn.entries[i].path) # 2
    /\ \E r \in out.res.t : Len(r[1]) = 3
    /\ \E r \in out.res.t : Len(r[1]) = 1

\* C20: a call that registers the path a/x for two modules, in the outcome
\* where Add returns its error and in the one where it does not
C20_DuplicateWithError ==
    /\ phase = "returned" /\ fn.name = "buildSchemaTree"
    /\ \E r, q \in Registrations(fn.entries) :
          r[2] # q[2] /\ Tail(r[2].path) = Tail(q[2].path)
    /\ out.res.err
C20_DuplicateWithoutError ==
    /\ phase = "returned" /\ fn.name = "buildSchemaTree"
    /\ \E r, q \in Registrations(fn.entries) :
          r[2] # q[2] /\ Tail(r[2].path) = Tail(q[2].path)
    /\ ~out.res.err

----------------------------------------------------------------------------
(* Leafref paths: parts, namespaces, absolute paths *)

\* whether the i-th character of path stands inside a key: the nearest
\* bracket before it is an opening one
InKeyAt(path, i) ==
    LET brackets == {j \in 1..(i - 1) : path[j] \in {"[", "]"}}
    IN  /\ brackets # {}
        /\ path[CHOOSE j \in brackets : \A x \in brackets : x <= j] = "["

\* the characters of path that are neither brackets nor inside a key
OutsideKeys(path) ==
    LET kept == SelectSeq([i \in 1..Len(path) |-> i],
                          LAMBDA i : path[i] \notin {"[", "]"} /\ ~InKeyAt(path, i))
    IN  [n \in 1..Len(kept) |-> path[kept[n]]]

\* the parts of a path: the pieces of its text outside keys between the /,
\* a last piece counting only if it is not empty
PartsOf(path) ==
    LET pieces == Split(OutsideKeys(path), "/")
    IN  IF pieces[Len(pieces)] = << >> THEN SubSeq(pieces, 1, Len(pieces) - 1)
        ELSE pieces

\* the number of colons of a part, and the part without its prefix
Colons(part) == Cardinality({i \in 1..Len(part) : part[i] = ":"})
WithoutPrefix(part) ==
    IF Colons(part) = 1
    THEN SubSeq(part, (CHOOSE i \in 1..Len(part) : part[i] = ":") + 1, Len(part))
    ELSE part

\* some part has more than one colon; the parts without their prefixes
ManyColons(parts) == \E i \in 1..Len(parts) : Colons(parts[i]) > 1
WithoutPrefixes(parts) == [i \in 1..Len(parts) |-> WithoutPrefix(parts[i])]

\* C21: a leafref path is split at the / outside [ ], the brackets and the
\* text inside them are dropped, every part loses its prefix:, a part with
\* more than one colon is an error, and a path whose first part is empty is
\* looked up by its other parts whatever the context entry is
C21_LeafrefPathTokenization ==
    /\ (phase = "returned" /\ fn.name = "splitXPATHParts")
          => out.parts = PartsOf(fn.path)
    /\ (phase = "returned" /\ fn.name = "removeXPATHNamespaces")
          => /\ out.res.err <=> ManyColons(fn.path)
             /\ ~out.res.err => out.res.parts = WithoutPrefixes(fn.path)
    /\ (phase = "returned" /\ fn.name = "fixSchemaTreePath")
          => LET parts == PartsOf(fn.path)
             IN  /\ ManyColons(parts) => out.res.err
                 /\ (~ManyColons(parts) /\ Len(parts) > 0 /\ parts[1] = << >>)
                       => out.res = FixedPath(Tail(WithoutPrefixes(parts)))
    /\ (phase = "returned" /\ fn.name = "resolveLeafrefTarget" /\ ~fn.t.nil)
          => LET parts == PartsOf(fn.path)
                 rest == Tail(WithoutPrefixes(parts))
             IN  /\ ManyColons(parts) => out.res.err
                 /\ (~ManyColons(parts) /\ Len(parts) > 0 /\ parts[1] = << >>)
                       => IF \E r \in fn.t.t : r[1] = rest
                          THEN /\ ~out.res.err
                               /\ <<rest, out.res.target>> \in fn.t.t
                          ELSE out.res.err

\* C21 happens: an absolute path with a key that holds a / and with a
\* prefixed part resolves to the leaf x of container a without a context
\* entry
C21_Witness ==
    /\ phase = "returned" /\ fn.name = "resolveLeafrefTarget"
    /\ fn.contextEntry.nil
    /\ "[" \in Range(fn.path) /\ ":" \in Range(fn.path)
    /\ ~out.res.err /\ ~out.res.panic
    /\ out.res.target = YangEntries[3]

----------------------------------------------------------------------------
(* A node whose parent was never addressed *)

\* the call addressed a node below the root's fields whose parent NodeInfo
\* carries no *pathSpec annotation
UnaddressedParent ==
    /\ phase = "returned"
    /\ fn.name = "nodeValuePath"
    /\ ~fn.ni.Parent.nil
    /\ ~fn.ni.parentIsRoot
    /\ ~fn.ni.Parent.Annotation.found

----------------------------------------------------------------------------
(* Diff of a tree against itself; updates against deletes *)

\* a list entry of the tree has no key leaf: its address cannot be computed
Unaddressable(t) == \E i \in 1..Len(t.OrderedList) : t.OrderedList[i].Key = Nil

\* C23 as stated: Diff(T, T) succeeds with no update and no delete
\* whatever the tree and the options are, and no Diff has an address both
\* among its updates and among its deletes
C23_SelfDiffIsEmptyAndListsAreDisjoint ==
    /\ (phase # "start" /\ original = modified)
          => /\ ~notif.err
             /\ notif.n.Update = << >>
             /\ notif.n.Delete = << >>
    /\ Diffed
          => \A i \in 1..Len(notif.n.Update) :
                 notif.n.Update[i].Path \notin Range(notif.n.Delete)

\* C23: Diff(T, T) fails exactly when a list entry of T has no key leaf
\* and otherwise succeeds with no update and no delete, whatever the
\* options are; no Diff has an address both among its updates and among
\* its deletes
C23_SelfDiffOfAddressableTreeIsEmpty ==
    /\ (phase # "start" /\ original = modified)
          => /\ notif.err <=> Unaddressable(original)
             /\ notif.n.Update = << >>
             /\ notif.n.Delete = << >>
    /\ Diffed
          => \A i \in 1..Len(notif.n.Update) :
                 notif.n.Update[i].Path \notin Range(notif.n.Delete)

\* C23 happens: a Diff that succeeded on a tree and itself, the tree
\* holding two entries of which one has a value
C23_Witness ==
    /\ Diffed
    /\ original = modified
    /\ Len(original.OrderedList) >= 2
    /\ \E i \in 1..Len(original.OrderedList) : original.OrderedList[i].Value # Nil

----------------------------------------------------------------------------
(* MapToSinglePath: one address per node *)

\* the leaf fields of the entry e that are not nil
SetLeafFields(e) == {f \in Range(OrderedListFields) : e[f.name] # Nil}

\* the pathSpecs computed in the walk of t under the options of the Diff
\* call: that of the list field, those of its entries, and those of the set
\* leaves of the entries, each from the pathSpec of its parent
WalkSpecs(t) ==
    LET po == hasDiffPathOpt(opts)
        lf == DeviceFields[1]
        list == nodeValuePath(ParentNode(NoAnnotation), FALSE, NewEntry(Nil),
                              MapToSinglePath(IterSchemaPaths(lf, po), po))
        entry(i) == nodeValuePath(ParentNode(Annotated(list.spec)), TRUE,
                                  t.OrderedList[i], MapToSinglePath(IterSchemaPaths(lf, po), po))
        leaf(i, f) == nodeValuePath(ParentNode(Annotated(entry(i).spec)), FALSE,
                                    t.OrderedList[i], MapToSinglePath(IterSchemaPaths(f, po), po))
    IN  IF Len(t.OrderedList) = 0 THEN {}
        ELSE {list}
                \cup {entry(i) : i \in 1..Len(t.OrderedList)}
                \cup UNION {{leaf(i, f) : f \in SetLeafFields(t.OrderedList[i])} :
                                i \in 1..Len(t.OrderedList)}

\* the set leaves of t: the entry and the field of every leaf that is not
\* nil
SetLeaves(t) ==
    UNION {{<<i, f.name>> : f \in SetLeafFields(t.OrderedList[i])} :
              i \in 1..Len(t.OrderedList)}

\* C24: under MapToSinglePath every pathSpec of a walk, of the list, of an
\* entry or of a leaf, holds one address; findSetLeaves and the path string
\* map hold one entry per set leaf; Diff has at most one update or delete
\* for a leaf of original and at most one update for a leaf of modified
C24_SinglePathOneAddressPerNode ==
    (Diffed /\ opts.MapToSinglePath) =>
        LET ol == LeavesOf(original)
            ml == LeavesOf(modified)
        IN  /\ \A vp \in WalkSpecs(original) \cup WalkSpecs(modified) :
                  ~vp.err /\ Len(vp.spec.gNMIPaths) = 1
            /\ {l.spec : l \in Range(ol)}
                  \subseteq {vp.spec : vp \in WalkSpecs(original)}
            /\ Len(ol) = Cardinality(SetLeaves(original))
            /\ Len(ml) = Cardinality(SetLeaves(modified))
            /\ Cardinality(DOMAIN StrPathMapOf(ol)) = Len(ol)
            /\ Cardinality(DOMAIN StrPathMapOf(ml)) = Len(ml)
            /\ \A l \in Range(ol) :
                  Cardinality(DeletesOf(l) \cup {-x : x \in UpdatesOf(l)}) <= 1
            /\ \A l \in Range(ml) :
                  DeletesOf(l) = {} /\ Cardinality(UpdatesOf(l)) <= 1
            /\ Len(notif.n.Delete) + Len(notif.n.Update)
                  <= Cardinality({l.spec : l \in Range(ol) \cup Range(ml)})

\* C24 happens: a Diff under MapToSinglePath of a tree with two entries, a
\* leaf of which is removed and another changed
C24_Witness ==
    /\ Diffed /\ opts.MapToSinglePath
    /\ Len(original.OrderedList) >= 2
    /\ LET ol == LeavesOf(original)
           ml == LeavesOf(modified)
       IN  \E l, c \in Range(ol) :
              /\ RemovedLeaf(l, ml) /\ Cardinality(DeletesOf(l)) = 1
              /\ ChangedLeaf(c, ml) /\ Cardinality(UpdatesOf(c)) = 1

====
